---- MODULE Spec2Model ----
(***************************************************************************)
(* Verification model of astro-core (src/astro-core/src/scout.rs and       *)
(* src/astro-core/src/lib.rs): the location-scoring core and the line      *)
(* generation pipeline.                                                    *)
(*                                                                         *)
(* Floating-point quantities are carried as fixed-point integers:          *)
(*   kernel values            in tenths          (KernelScale   = 10)      *)
(*   aspect benefit mult.     in tenths                                    *)
(*   aspect intensity mult.   in twentieths                                *)
(*   diminishing weights      in hundredths                                *)
(*   benefit contribution     in 1/100                                     *)
(*   intensity contribution   in 1/200                                     *)
(*   raw benefit sums         in 1/10000                                   *)
(*   raw intensity sums       in 1/20000                                   *)
(*   scores                   in 1/20000 of a point (ScoreScale)           *)
(*   latitudes, longitudes    in hundredths of a degree (Deg)              *)
(*   sines and cosines        in 1/10000         (TrigScale)               *)
(*   distances                in whole km                                  *)
(***************************************************************************)
EXTENDS Integers, Sequences, FiniteSets, TLC

VARIABLES
    pc,                   \* position of the running entry point
    config,               \* ScoringConfig in use
    influences,           \* scout_city: the Vec<Influence> being collected
    score,                \* scout_city: the CityScore returned
    cities,               \* scout_cities_for_category*: the city list
    category,             \* ... its LifeCategory
    sort_mode,            \* ... its SortMode
    city_influence_sets,  \* sequential scout: the sets mapped so far
    seq_rankings,         \* sequential scout: the returned ranking
    par_slots,            \* parallel scout: result slot of each city index
    par_finished,         \* parallel scout: city indices in finishing order
    par_rankings,         \* parallel scout: the returned ranking
    city_rankings,        \* group_and_rank_countries: the input rankings
    ranked_countries,     \* group_and_rank_countries: the returned groups
    parallel_feature,     \* calculate_all_lines: cfg!(feature = "parallel")
    equatorial,           \* ... the bodies whose ASC/DSC polylines are empty
    planet_results,       \* ... the PlanetCalcResult slot of each body
    planet_done,          \* ... the body indices already calculated
    result,               \* ... the AstroResult being filled
    geo_city,             \* geodetic scout: the city, (lat, lon)
    geo_lines,            \* ... the LineData list with its polylines
    plain_influences,     \* scout_city: the influences collected
    plain_score,          \* scout_city: the CityScore returned
    bbox_influences,      \* scout_cities_for_category: the influences
    bbox_rankings,        \* scout_cities_for_category: the returned ranking
    fast_influences,      \* scout_cities_fast: the influences collected
    fast_rankings,        \* scout_cities_fast: the returned ranking
    args,                 \* a called function: its arguments
    ret,                  \* a called function: the value it returned
    scan_lng,             \* calculate_planet_lines: `let mut lng`
    scan_step,            \* ... `let adaptive_step`
    asc_pushed,           \* ... `let mut asc_points`
    dsc_pushed,           \* ... `let mut dsc_points`
    grid_lat,             \* generate_grid: `let mut lat`
    grid_lon,             \* ... `let mut lon`
    grid_points,          \* ... `let mut points`
    progress_calls,       \* ..._with_progress: the calls of the callback
    callback_threw        \* ... whether the last call of it threw

scoreVars == <<influences, score>>

rankVars == <<cities, category, sort_mode, city_influence_sets, seq_rankings,
              par_slots, par_finished, par_rankings>>

countryVars == <<city_rankings, ranked_countries>>

linesVars == <<parallel_feature, equatorial, planet_results, planet_done,
               result>>

geoVars == <<geo_city, geo_lines, plain_influences, plain_score,
             bbox_influences, bbox_rankings, fast_influences, fast_rankings>>

\* the locals of the sampling loops of calculate_planet_lines
samplingVars == <<scan_lng, scan_step, asc_pushed, dsc_pushed>>

\* the locals of generate_grid
gridVars == <<grid_lat, grid_lon, grid_points>>

\* the progress callback of scout_cities_for_category_with_progress
progressVars == <<progress_calls, callback_threw>>

callVars == <<args, ret, samplingVars, gridVars, progressVars>>

vars == <<pc, config, scoreVars, rankVars, countryVars, linesVars, geoVars,
          callVars>>

----------------------------------------------------------------------------
(* Bounds of the model *)

\* longest influence list collected for one city
MaxInfluences == 8

\* longest city list handed to a scout entry point
MaxCities == 3

\* longest ranking list handed to group_and_rank_countries
MaxRankings == 3

----------------------------------------------------------------------------
(* Generic helpers *)

Min(a, b) == IF a < b THEN a ELSE b

Max(a, b) == IF a > b THEN a ELSE b

Abs(x) == IF x < 0 THEN -x ELSE x

Front(s) == SubSeq(s, 1, Len(s) - 1)

Last(s) == s[Len(s)]

\* f64::clamp
Clamp(x, lo, hi) == IF x < lo THEN lo ELSE IF x > hi THEN hi ELSE x

RECURSIVE ISqrtBits(_, _, _)
\* floor(sqrt(n)) by binary search on [lo, hi)
ISqrtBits(n, lo, hi) ==
    IF hi - lo <= 1 THEN lo
    ELSE LET mid == (lo + hi) \div 2
         IN  IF mid * mid <= n THEN ISqrtBits(n, mid, hi)
                               ELSE ISqrtBits(n, lo, mid)

\* f64::sqrt on fixed-point operands (floor); n < 46340^2
ISqrt(n) == ISqrtBits(n, 0, 46340)

\* the least and the greatest element of a non-empty set of numbers
SetMin(S) == CHOOSE x \in S : \A y \in S : x <= y

SetMax(S) == CHOOSE x \in S : \A y \in S : x >= y

RECURSIVE SumSeq(_)
SumSeq(s) == IF s = <<>> THEN 0 ELSE SumSeq(Front(s)) + Last(s)

----------------------------------------------------------------------------
(* Constants of scout.rs *)

KernelScale == 10

ScoreScale == 20000

DEFAULT_MAX_DISTANCE_KM == 500

\* DIMINISHING_WEIGHTS = [1.0, 0.6, 0.35, 0.2, 0.1, 0.08, 0.05], in hundredths
DIMINISHING_WEIGHTS == <<100, 60, 35, 20, 10, 8, 5>>

AspectType == {"Conjunction", "Trine", "Sextile", "Square", "Quincunx",
               "Opposition", "Sesquisquare"}

\* Option<AspectType>::None
NoAspect == "None"

KernelType == {"Linear", "Gaussian", "Exponential"}

SortMode == {"BenefitFirst", "IntensityFirst", "BalancedBenefit"}

LifeCategory == {"Career", "Love", "Health", "Home", "Wellbeing", "Wealth"}

\* ScoringConfig::balanced(); volatility_penalty in tenths
balanced ==
    [kernel_type |-> "Gaussian", kernel_parameter |-> 180,
     max_distance_km |-> 500, volatility_penalty |-> 3]

\* ScoringConfig::high_precision()
high_precision ==
    [kernel_type |-> "Gaussian", kernel_parameter |-> 120,
     max_distance_km |-> 600, volatility_penalty |-> 4]

\* ScoringConfig::relaxed()
relaxed ==
    [kernel_type |-> "Linear", kernel_parameter |-> 500,
     max_distance_km |-> 500, volatility_penalty |-> 2]

ScoringConfigs == {balanced, high_precision, relaxed}

----------------------------------------------------------------------------
(* The state of an entry point that is not running *)

\* no CityScore returned yet
NoScore == [benefit_score |-> -1, intensity_score |-> -1,
            volatility_score |-> -1, mixed_flag |-> FALSE,
            influence_count |-> -1, min_distance_km |-> -1]

ScoreIdle ==
    /\ influences = <<>>
    /\ score = NoScore

RankIdle ==
    /\ cities = <<>>
    /\ category = "Career"
    /\ sort_mode = "BenefitFirst"
    /\ city_influence_sets = <<>>
    /\ seq_rankings = <<>>
    /\ par_slots = <<>>
    /\ par_finished = <<>>
    /\ par_rankings = <<>>

\* AstroResult before the flatten loop
EmptyResult == [planetary_positions |-> <<>>, planetary_lines |-> <<>>,
                zenith_points |-> <<>>]

CountryIdle ==
    /\ city_rankings = <<>>
    /\ ranked_countries = <<>>

LinesIdle ==
    /\ parallel_feature = FALSE
    /\ equatorial = {}
    /\ planet_results = <<>>
    /\ planet_done = {}
    /\ result = EmptyResult

\* no call made
NoArgs == <<>>

\* no value returned yet
NoReturn == "pending"

\* calculate_planet_lines is not running
SamplingIdle ==
    /\ scan_lng = 0
    /\ scan_step = 0
    /\ asc_pushed = <<>>
    /\ dsc_pushed = <<>>

\* generate_grid is not running
GridIdle ==
    /\ grid_lat = 0
    /\ grid_lon = 0
    /\ grid_points = <<>>

\* no progress callback is installed
ProgressIdle ==
    /\ progress_calls = <<>>
    /\ callback_threw = FALSE

CallIdle ==
    /\ args = NoArgs
    /\ ret = NoReturn
    /\ SamplingIdle
    /\ GridIdle
    /\ ProgressIdle

GeoIdle ==
    /\ geo_city = <<0, 0>>
    /\ geo_lines = <<>>
    /\ plain_influences = <<>>
    /\ plain_score = NoScore
    /\ bbox_influences = <<>>
    /\ bbox_rankings = <<>>
    /\ fast_influences = <<>>
    /\ fast_rankings = <<>>

\* the state of the scouting and line-generation entry points
progVars == <<scoreVars, rankVars, countryVars, linesVars, geoVars,
             samplingVars, gridVars, progressVars>>

\* a function is called on its own: no entry point is running
ProgIdle ==
    /\ config = balanced
    /\ ScoreIdle
    /\ RankIdle
    /\ CountryIdle
    /\ LinesIdle
    /\ GeoIdle
    /\ SamplingIdle
    /\ GridIdle
    /\ ProgressIdle

----------------------------------------------------------------------------
(* Distance decay kernels, values in tenths *)

\* round(10 * exp(-x/10)) for x = 0, 1, 2, ... tenths; 0 beyond the table
ExpNegTable ==
    <<10, 9, 8, 7, 7, 6, 5, 5, 4, 4,
      4, 3, 3, 3, 2, 2, 2, 2, 2, 1,
      1, 1, 1, 1, 1, 1, 1, 1, 1, 1>>

\* f64::exp of a non-positive argument -x/10
ExpNeg(x) == IF x + 1 <= Len(ExpNegTable) THEN ExpNegTable[x + 1] ELSE 0

linear_kernel(distance_km, bandwidth_km) ==
    Max((KernelScale * (bandwidth_km - distance_km)) \div bandwidth_km, 0)

gaussian_kernel(distance_km, sigma_km) ==
    ExpNeg((5 * distance_km * distance_km) \div (sigma_km * sigma_km))

exponential_kernel(distance_km, lambda_km) ==
    ExpNeg((10 * distance_km) \div lambda_km)

apply_kernel(distance_km, cfg) ==
    CASE cfg.kernel_type = "Linear" ->
            linear_kernel(distance_km, cfg.kernel_parameter)
      [] cfg.kernel_type = "Gaussian" ->
            gaussian_kernel(distance_km, cfg.kernel_parameter)
      [] cfg.kernel_type = "Exponential" ->
            exponential_kernel(distance_km, cfg.kernel_parameter)

----------------------------------------------------------------------------
(* Rating and aspect handling *)

rating_to_benefit(rating) == rating - 3

rating_to_intensity(rating) == Abs(rating - 3)

\* in tenths
aspect_benefit_multiplier(aspect) ==
    CASE aspect = "Conjunction"  -> 10
      [] aspect = "Trine"        -> 7
      [] aspect = "Sextile"      -> 7
      [] aspect = "Square"       -> -6
      [] aspect = "Quincunx"     -> 3
      [] aspect = "Opposition"   -> -5
      [] aspect = "Sesquisquare" -> -4

\* in twentieths
aspect_intensity_multiplier(aspect) ==
    CASE aspect = "Conjunction"  -> 20
      [] aspect = "Trine"        -> 12
      [] aspect = "Sextile"      -> 12
      [] aspect = "Square"       -> 17
      [] aspect = "Quincunx"     -> 8
      [] aspect = "Opposition"   -> 16
      [] aspect = "Sesquisquare" -> 14

\* InfluenceContribution: benefit in 1/100, intensity in 1/200,
\* volatility in 1/10
calculate_influence_contribution(influence, cfg) ==
    LET kernel         == apply_kernel(influence.distance_km, cfg)
        base_benefit   == rating_to_benefit(influence.rating)
        base_intensity == rating_to_intensity(influence.rating)
        benefit_mult   == IF influence.aspect = NoAspect THEN 10
                          ELSE aspect_benefit_multiplier(influence.aspect)
        intensity_mult == IF influence.aspect = NoAspect THEN 20
                          ELSE aspect_intensity_multiplier(influence.aspect)
    IN  [benefit    |-> base_benefit * benefit_mult * kernel,
         intensity  |-> base_intensity * intensity_mult * kernel,
         volatility |-> IF benefit_mult < 0 /\ base_benefit # 0
                        THEN Abs(base_benefit) * kernel ELSE 0]

----------------------------------------------------------------------------
(* City-level scoring *)

RECURSIVE InsertByKeyDesc(_, _)
\* position of the pair x = <<key, value>> in a descending run: after every
\* pair whose key is not smaller (the merge step of a stable sort)
InsertByKeyDesc(sorted, x) ==
    IF sorted = <<>> THEN <<x>>
    ELSE IF Last(sorted)[1] >= x[1] THEN Append(sorted, x)
    ELSE Append(InsertByKeyDesc(Front(sorted), x), Last(sorted))

RECURSIVE SortPairsDesc(_)
SortPairsDesc(pairs) ==
    IF pairs = <<>> THEN <<>>
    ELSE InsertByKeyDesc(SortPairsDesc(Front(pairs)), Last(pairs))

\* slice::sort_by(|a, b| key(b).partial_cmp(key(a))): stable, descending;
\* keys[i] is the sort key of s[i]
sort_by_desc(s, keys) ==
    LET sorted == SortPairsDesc([i \in 1..Len(s) |-> <<keys[i], s[i]>>])
    IN  [i \in 1..Len(s) |-> sorted[i][2]]

\* contributions.sort_by(|a, b| b.benefit.abs().partial_cmp(a.benefit.abs()))
ranked_contributions(infl, cfg) ==
    LET contributions == [i \in 1..Len(infl) |->
                             calculate_influence_contribution(infl[i], cfg)]
    IN  sort_by_desc(contributions,
                     [i \in 1..Len(infl) |-> Abs(contributions[i].benefit)])

\* the unbounded tail of the weights: every rank past the table weighs 0.05
weighted_top_k_unbounded(vals) ==
    SumSeq([i \in 1..Len(vals) |->
               vals[i] * (IF i <= Len(DIMINISHING_WEIGHTS)
                          THEN DIMINISHING_WEIGHTS[i] ELSE 5)])

\* .iter().take(k).enumerate().map(|(i, c)| c * DIMINISHING_WEIGHTS[i]).sum()
weighted_top_k(vals) ==
    LET k == Len(DIMINISHING_WEIGHTS)
    IN  SumSeq([i \in 1..Min(k, Len(vals)) |->
                   vals[i] * DIMINISHING_WEIGHTS[i]])

\* in 1/10000
benefit_score_raw(infl, cfg) ==
    LET c == ranked_contributions(infl, cfg)
    IN  weighted_top_k([i \in 1..Len(c) |-> c[i].benefit])

\* in 1/20000
intensity_score_raw(infl, cfg) ==
    LET c == ranked_contributions(infl, cfg)
    IN  weighted_top_k([i \in 1..Len(c) |-> c[i].intensity])

\* in 1/10000
weighted_positive(infl, cfg) ==
    LET c == ranked_contributions(infl, cfg)
    IN  weighted_top_k([i \in 1..Len(c) |-> Max(c[i].benefit, 0)])

\* in 1/10000
weighted_negative(infl, cfg) ==
    LET c == ranked_contributions(infl, cfg)
    IN  weighted_top_k([i \in 1..Len(c) |-> Max(-c[i].benefit, 0)])

\* (weighted_positive * weighted_negative).sqrt(), in 1/10000
volatility_raw(infl, cfg) ==
    ISqrt(weighted_positive(infl, cfg) * weighted_negative(infl, cfg))

\* mixed_flag with "or" in place of "and"
mixed_flag_either(infl, cfg) ==
    weighted_positive(infl, cfg) > 5000 \/ weighted_negative(infl, cfg) > 5000

\* weighted_positive > 0.5 && weighted_negative > 0.5
mixed_flag_of(infl, cfg) ==
    weighted_positive(infl, cfg) > 5000 /\ weighted_negative(infl, cfg) > 5000

\* 50.0 + benefit_score_raw * 10.5, before the clamp, in 1/20000
benefit_unclamped(infl, cfg) ==
    50 * ScoreScale + benefit_score_raw(infl, cfg) * 21

\* intensity_score_raw * 21.0, before the clamp, in 1/20000
intensity_unclamped(infl, cfg) == intensity_score_raw(infl, cfg) * 21

\* volatility_raw * 42.0, before the clamp, in 1/20000
volatility_unclamped(infl, cfg) == volatility_raw(infl, cfg) * 84

\* f64::INFINITY of min_distance_km
INFINITY == 1000000

RECURSIVE fold_min(_)
fold_min(s) == IF s = <<>> THEN INFINITY ELSE Min(fold_min(Front(s)), Last(s))

calculate_city_score(infl, cfg) ==
    IF infl = <<>>
    THEN [benefit_score |-> 50 * ScoreScale, intensity_score |-> 0,
          volatility_score |-> 0, mixed_flag |-> FALSE,
          influence_count |-> 0, min_distance_km |-> INFINITY]
    ELSE [benefit_score    |-> Clamp(benefit_unclamped(infl, cfg),
                                     0, 100 * ScoreScale),
          intensity_score  |-> Clamp(intensity_unclamped(infl, cfg),
                                     0, 100 * ScoreScale),
          volatility_score |-> Clamp(volatility_unclamped(infl, cfg),
                                     0, 100 * ScoreScale),
          mixed_flag       |-> mixed_flag_of(infl, cfg),
          influence_count  |-> Len(infl),
          min_distance_km  |->
              fold_min([i \in 1..Len(infl) |-> infl[i].distance_km])]

----------------------------------------------------------------------------
(* Category-specific filtering *)

BeneficialPairs(cat) ==
    CASE cat = "Career" ->
            { <<"Sun", "MC">>, <<"Jupiter", "MC">>, <<"Mercury", "MC">>,
              <<"Venus", "MC">>, <<"Mars", "MC">>, <<"Saturn", "MC">>,
              <<"Pluto", "MC">>, <<"Sun", "ASC">>, <<"Mars", "ASC">>,
              <<"Jupiter", "ASC">>, <<"Mercury", "ASC">> }
      [] cat = "Love" ->
            { <<"Venus", "DSC">>, <<"Sun", "DSC">>, <<"Jupiter", "DSC">>,
              <<"Moon", "DSC">>, <<"Venus", "ASC">>, <<"Sun", "ASC">>,
              <<"Mars", "ASC">>, <<"Jupiter", "ASC">> }
      [] cat = "Health" ->
            { <<"Sun", "ASC">>, <<"Jupiter", "ASC">>, <<"Moon", "ASC">>,
              <<"Mars", "ASC">>, <<"Venus", "IC">>, <<"Jupiter", "MC">>,
              <<"Venus", "MC">>, <<"Sun", "IC">>, <<"Moon", "IC">> }
      [] cat = "Home" ->
            { <<"Venus", "IC">>, <<"Moon", "IC">>, <<"Jupiter", "IC">>,
              <<"Sun", "IC">>, <<"Saturn", "IC">>, <<"Venus", "ASC">>,
              <<"Moon", "ASC">>, <<"Jupiter", "ASC">>, <<"Mercury", "IC">> }
      [] cat = "Wellbeing" ->
            { <<"Venus", "ASC">>, <<"Venus", "IC">>, <<"Venus", "DSC">>,
              <<"Jupiter", "ASC">>, <<"Jupiter", "MC">>, <<"Jupiter", "IC">>,
              <<"Jupiter", "DSC">>, <<"Moon", "IC">>, <<"Moon", "ASC">>,
              <<"Sun", "ASC">>, <<"Sun", "IC">>, <<"Neptune", "ASC">> }
      [] cat = "Wealth" ->
            { <<"Jupiter", "MC">>, <<"Jupiter", "IC">>, <<"Jupiter", "ASC">>,
              <<"Jupiter", "DSC">>, <<"Venus", "MC">>, <<"Venus", "ASC">>,
              <<"Sun", "MC">>, <<"Sun", "ASC">>, <<"Mercury", "MC">>,
              <<"Mercury", "ASC">>, <<"Pluto", "MC">> }

ChallengingPairs(cat) ==
    CASE cat = "Career" ->
            { <<"Neptune", "MC">>, <<"Uranus", "MC">>, <<"Moon", "MC">> }
      [] cat = "Love" ->
            { <<"Saturn", "DSC">>, <<"Pluto", "DSC">>, <<"Mars", "DSC">>,
              <<"Uranus", "DSC">>, <<"Neptune", "DSC">> }
      [] cat = "Health" ->
            { <<"Saturn", "ASC">>, <<"Saturn", "MC">>, <<"Neptune", "ASC">>,
              <<"Pluto", "ASC">>, <<"Uranus", "ASC">> }
      [] cat = "Home" ->
            { <<"Uranus", "IC">>, <<"Neptune", "IC">>, <<"Pluto", "IC">>,
              <<"Saturn", "IC">>, <<"Mars", "IC">> }
      [] cat = "Wellbeing" ->
            { <<"Saturn", "ASC">>, <<"Saturn", "MC">>, <<"Neptune", "MC">>,
              <<"Pluto", "ASC">>, <<"Pluto", "MC">>, <<"Mars", "ASC">> }
      [] cat = "Wealth" ->
            { <<"Neptune", "MC">>, <<"Neptune", "IC">>, <<"Uranus", "MC">>,
              <<"Uranus", "IC">>, <<"Saturn", "ASC">> }

is_beneficial_for_category(planet, angle, cat) ==
    <<planet, angle>> \in BeneficialPairs(cat)

is_challenging_for_category(planet, angle, cat) ==
    <<planet, angle>> \in ChallengingPairs(cat)

get_line_nature(planet, angle, cat) ==
    IF is_beneficial_for_category(planet, angle, cat) THEN "beneficial"
    ELSE IF is_challenging_for_category(planet, angle, cat) THEN "challenging"
    ELSE "None"

\* a filter that keeps the beneficial lines only
filter_influences_beneficial_only(infl, cat) ==
    SelectSeq(infl, LAMBDA inf :
        is_beneficial_for_category(inf.planet, inf.angle, cat))

filter_influences_by_category(infl, cat) ==
    SelectSeq(infl, LAMBDA inf :
        \/ is_beneficial_for_category(inf.planet, inf.angle, cat)
        \/ is_challenging_for_category(inf.planet, inf.angle, cat))

----------------------------------------------------------------------------
(* City ranking *)

\* the CityRanking of one city, or <<>> when filter_map drops it
\* (the closure body of rank_cities_by_category)
city_ranking(city, cat, cfg) ==
    LET filtered_influences ==
            filter_influences_by_category(city.influences, cat)
        sc == calculate_city_score(filtered_influences, cfg)
        nature ==
            IF sc.mixed_flag THEN "mixed"
            ELSE IF sc.benefit_score > 52 * ScoreScale THEN "beneficial"
            ELSE IF sc.benefit_score < 48 * ScoreScale THEN "challenging"
            ELSE "mixed"
    IN  IF filtered_influences = <<>> THEN <<>>
        ELSE << [city_name        |-> city.city_name,
                 country          |-> city.country,
                 benefit_score    |-> sc.benefit_score,
                 intensity_score  |-> sc.intensity_score,
                 volatility_score |-> sc.volatility_score,
                 mixed_flag       |-> sc.mixed_flag,
                 top_influences   |->
                     [i \in 1..Min(3, Len(filtered_influences)) |->
                         << filtered_influences[i].planet,
                            filtered_influences[i].angle,
                            filtered_influences[i].distance_km >>],
                 nature           |-> nature] >>

RECURSIVE filter_map_rankings(_, _, _)
\* cities.iter().filter_map(...).collect()
filter_map_rankings(sets, cat, cfg) ==
    IF sets = <<>> THEN <<>>
    ELSE filter_map_rankings(Front(sets), cat, cfg)
             \o city_ranking(Last(sets), cat, cfg)

\* the sort key of the three sort modes, in 1/200000 of a point
\* (volatility_penalty is in tenths)
sort_key(r, mode, cfg) ==
    CASE mode = "BenefitFirst"    -> 10 * r.benefit_score
      [] mode = "IntensityFirst"  -> 10 * r.intensity_score
      [] mode = "BalancedBenefit" ->
            10 * r.benefit_score - r.volatility_score * cfg.volatility_penalty

\* the comparator with its operands exchanged: ascending order
sort_rankings_ascending(rankings, mode, cfg) ==
    sort_by_desc(rankings,
                 [i \in 1..Len(rankings) |-> -sort_key(rankings[i], mode, cfg)])

\* match sort_mode { ... rankings.sort_by(...) }
sort_rankings(rankings, mode, cfg) ==
    sort_by_desc(rankings,
                 [i \in 1..Len(rankings) |-> sort_key(rankings[i], mode, cfg)])

rank_cities_by_category(sets, cat, cfg, mode) ==
    sort_rankings(filter_map_rankings(sets, cat, cfg), mode, cfg)

----------------------------------------------------------------------------
(* scout_cities_for_category and scout_cities_for_category_parallel *)

\* the lines handed to the scout (LineData without its points)
ScoutLines ==
    << [planet |-> "Sun", angle |-> "MC", rating |-> 5, aspect |-> NoAspect],
       [planet |-> "Neptune", angle |-> "MC", rating |-> 1,
        aspect |-> NoAspect],
       [planet |-> "Moon", angle |-> "IC", rating |-> 4,
        aspect |-> NoAspect] >>

\* The geometry of a city against ScoutLines: distance[j] is
\* distance_to_polyline(city, lines[j].points) in km and in_bbox[j] is
\* lines[j].bbox.might_contain(city)
CityGeometries ==
    { [distance |-> <<0, 700, 700>>, in_bbox |-> <<TRUE, FALSE, FALSE>>],
      [distance |-> <<0, 180, 0>>,   in_bbox |-> <<TRUE, TRUE, TRUE>>],
      [distance |-> <<700, 0, 700>>, in_bbox |-> <<FALSE, TRUE, TRUE>>],
      [distance |-> <<700, 700, 180>>, in_bbox |-> <<FALSE, FALSE, TRUE>>] }

\* CityData: the name is the position in the list
CityLists ==
    UNION { { [i \in 1..n |->
                 [name |-> i, country |-> "X", geometry |-> g[i]]] :
              g \in [1..n -> CityGeometries] } : n \in 0..MaxCities }

RECURSIVE collect_influences(_, _, _)
\* `for line in &optimized_lines` over the first j lines: bounding-box
\* rejection, full distance, push when in range
collect_influences(city, j, cfg) ==
    IF j = 0 THEN <<>>
    ELSE LET before == collect_influences(city, j - 1, cfg)
             line   == ScoutLines[j]
         IN  IF ~city.geometry.in_bbox[j] THEN before
             ELSE IF city.geometry.distance[j] <= cfg.max_distance_km
             THEN Append(before,
                         [planet |-> line.planet, angle |-> line.angle,
                          rating |-> line.rating, aspect |-> line.aspect,
                          distance_km |-> city.geometry.distance[j]])
             ELSE before

\* the closure mapped over the cities, sequentially or by par_iter
city_influence_set(city, cfg) ==
    [city_name  |-> city.name,
     country    |-> city.country,
     influences |-> collect_influences(city, Len(ScoutLines), cfg)]

\* an empty result slot of the parallel collect
EmptySlot == [city_name |-> 0, country |-> "", influences |-> <<>>]

\* a collect that gathers the results in the order the workers finished
par_collect_finish_order(slots, finished) ==
    [k \in 1..Len(finished) |-> slots[finished[k]]]

\* rayon's indexed collect: the result of item i lands at position i
par_collect(slots, finished) ==
    [i \in 1..Len(slots) |-> slots[i]]

RankConfigs == {balanced, relaxed}

RankCategories == {"Career", "Home"}

RankInit ==
    /\ pc = "sequential"
    /\ config \in RankConfigs
    /\ cities \in CityLists
    /\ category \in RankCategories
    /\ sort_mode \in SortMode
    /\ city_influence_sets = <<>>
    /\ seq_rankings = <<>>
    /\ par_slots = [i \in 1..Len(cities) |-> EmptySlot]
    /\ par_finished = <<>>
    /\ par_rankings = <<>>
    /\ ScoreIdle
    /\ CountryIdle
    /\ LinesIdle
    /\ GeoIdle
    /\ CallIdle

\* scout_cities_for_category: cities.iter().map(...) takes the next city
SeqMapCity ==
    /\ pc = "sequential"
    /\ Len(city_influence_sets) < Len(cities)
    /\ city_influence_sets' =
           Append(city_influence_sets,
                  city_influence_set(cities[Len(city_influence_sets) + 1],
                                     config))
    /\ UNCHANGED <<callVars,
                   pc, config, scoreVars, countryVars, linesVars, geoVars,
                   cities, category, sort_mode,
                   seq_rankings, par_slots, par_finished, par_rankings>>

\* scout_cities_for_category: rank and return
SeqRank ==
    /\ pc = "sequential"
    /\ Len(city_influence_sets) = Len(cities)
    /\ seq_rankings' = rank_cities_by_category(city_influence_sets, category,
                                               config, sort_mode)
    /\ pc' = "parallel"
    /\ UNCHANGED <<callVars,
                   config, scoreVars, countryVars, linesVars, geoVars,
                   cities, category, sort_mode,
                   city_influence_sets, par_slots, par_finished, par_rankings>>

\* scout_cities_for_category_parallel: a worker maps city i and finishes
ParMapCity(i) ==
    /\ pc = "parallel"
    /\ i \in 1..Len(cities)
    /\ \A k \in 1..Len(par_finished) : par_finished[k] # i
    /\ par_slots' = [par_slots EXCEPT ![i] = city_influence_set(cities[i],
                                                                 config)]
    /\ par_finished' = Append(par_finished, i)
    /\ UNCHANGED <<callVars,
                   pc, config, scoreVars, countryVars, linesVars, geoVars,
                   cities, category, sort_mode,
                   city_influence_sets, seq_rankings, par_rankings>>

\* scout_cities_for_category_parallel: join, collect, rank and return
ParRank ==
    /\ pc = "parallel"
    /\ Len(par_finished) = Len(cities)
    /\ par_rankings' =
           rank_cities_by_category(par_collect(par_slots, par_finished),
                                   category, config, sort_mode)
    /\ pc' = "done"
    /\ UNCHANGED <<callVars,
                   config, scoreVars, countryVars, linesVars, geoVars,
                   cities, category, sort_mode,
                   city_influence_sets, seq_rankings, par_slots, par_finished>>

RankNext ==
    \/ SeqMapCity
    \/ SeqRank
    \/ \E i \in 1..MaxCities + 1 : ParMapCity(i)
    \/ ParRank

RankSpec == RankInit /\ [][RankNext]_vars

----------------------------------------------------------------------------
(* scout_city: collect the influences of the lines in range, then score *)

\* the lines offered to scout_city with the distance found for each
\* (fixtures of the score tests, an aspected line and one line out of range)
ScoutedLines ==
    { [planet |-> "Sun", angle |-> "MC", rating |-> 5,
       aspect |-> NoAspect, distance_km |-> 0],
      [planet |-> "Saturn", angle |-> "MC", rating |-> 1,
       aspect |-> NoAspect, distance_km |-> 0],
      [planet |-> "Jupiter", angle |-> "ASC", rating |-> 4,
       aspect |-> "Square", distance_km |-> 180],
      [planet |-> "Moon", angle |-> "IC", rating |-> 3,
       aspect |-> NoAspect, distance_km |-> 700] }

ScoreInit ==
    /\ config \in ScoringConfigs
    /\ ScoreIdle
    /\ pc = "scout_city"
    /\ RankIdle
    /\ CountryIdle
    /\ LinesIdle
    /\ GeoIdle
    /\ CallIdle

\* one iteration of `for line in &lines` of scout_city
ScoutCityLine(line) ==
    /\ pc = "scout_city"
    /\ Len(influences) < MaxInfluences
    /\ influences' = IF line.distance_km <= config.max_distance_km
                     THEN Append(influences, line)
                     ELSE influences
    /\ UNCHANGED <<callVars,
                   pc, config, score, rankVars, countryVars, linesVars,
                   geoVars>>

\* the end of scout_city: calculate_city_score(&city_set, &config)
ScoutCityScore ==
    /\ pc = "scout_city"
    /\ score' = calculate_city_score(influences, config)
    /\ pc' = "scored"
    /\ UNCHANGED <<callVars,
                   config, influences, rankVars, countryVars, linesVars,
                   geoVars>>

ScoreNext ==
    \/ \E line \in ScoutedLines : ScoutCityLine(line)
    \/ ScoutCityScore

ScoreSpec == ScoreInit /\ [][ScoreNext]_vars

----------------------------------------------------------------------------
(* group_and_rank_countries *)

RECURSIVE SeqToSet(_)
SeqToSet(s) == IF s = <<>> THEN {} ELSE SeqToSet(Front(s)) \cup {Last(s)}

\* the orders in which a HashMap holding these keys may be iterated
IterationOrders(keys) ==
    { o \in [1..Cardinality(keys) -> keys] :
        \A a, b \in 1..Cardinality(keys) : a # b => o[a] # o[b] }

\* country_map.entry(country).or_default().push(city): the cities of one
\* country in input order
country_cities(rankings, country) ==
    SelectSeq(rankings, LAMBDA c : c.country = country)

\* the score of a group read from its last city
country_top_score_last(group) ==
    IF group.cities = <<>> THEN 0 ELSE Last(group.cities).benefit_score

\* a.cities.first().map(|c| c.benefit_score).unwrap_or(0.0)
country_top_score(group) ==
    IF group.cities = <<>> THEN 0 ELSE group.cities[1].benefit_score

\* the closure mapped over country_map.into_iter()
ranked_country(rankings, country) ==
    LET unsorted == country_cities(rankings, country)
        sorted   == sort_by_desc(unsorted,
                        [i \in 1..Len(unsorted) |-> unsorted[i].benefit_score])
    IN  [country  |-> country,
         cities   |-> sorted,
         beneficial_count  |->
             Len(SelectSeq(sorted, LAMBDA c : c.nature = "beneficial")),
         challenging_count |->
             Len(SelectSeq(sorted, LAMBDA c : c.nature = "challenging"))]

\* order is the order in which the HashMap yields its entries
group_and_rank_countries(rankings, order) ==
    IF rankings = <<>> THEN <<>>
    ELSE LET groups == [k \in 1..Len(order) |->
                           ranked_country(rankings, order[k])]
         IN  sort_by_desc(groups,
                 [k \in 1..Len(groups) |-> country_top_score(groups[k])])

Countries == {"A", "B", "C"}

\* benefit scores of the input rankings, in points
RankingScores == {45, 50, 60}

nature_of(benefit_score) ==
    IF benefit_score > 52 * ScoreScale THEN "beneficial"
    ELSE IF benefit_score < 48 * ScoreScale THEN "challenging"
    ELSE "mixed"

\* the CityRanking fields group_and_rank_countries reads; the name is the
\* position in the input list
RankingLists ==
    UNION { { [i \in 1..n |->
                 [city_name |-> i, country |-> c[i],
                  benefit_score |-> b[i] * ScoreScale,
                  nature |-> nature_of(b[i] * ScoreScale)]] :
              c \in [1..n -> Countries], b \in [1..n -> RankingScores] } :
            n \in 0..MaxRankings }

CountryInit ==
    /\ pc = "rank_countries"
    /\ config = balanced
    /\ city_rankings \in RankingLists
    /\ ranked_countries = <<>>
    /\ ScoreIdle
    /\ RankIdle
    /\ LinesIdle
    /\ GeoIdle
    /\ CallIdle

\* rank_countries_from_cities: one call of group_and_rank_countries
GroupAndRankCountries ==
    /\ pc = "rank_countries"
    /\ \E order \in IterationOrders(
                        { city_rankings[i].country :
                              i \in 1..Len(city_rankings) }) :
          ranked_countries' = group_and_rank_countries(city_rankings, order)
    /\ pc' = "grouped"
    /\ UNCHANGED <<callVars,
                   config, scoreVars, rankVars, linesVars, geoVars,
                   city_rankings>>

CountryNext == GroupAndRankCountries

CountrySpec == CountryInit /\ [][CountryNext]_vars

----------------------------------------------------------------------------
(* calculate_all_lines: per-body line generation and the flatten loop *)

\* let planets = [Planet::Sun, ...]
planets == <<"Sun", "Moon", "Mercury", "Venus", "Mars", "Jupiter", "Saturn",
             "Uranus", "Neptune", "Pluto", "Chiron", "NorthNode">>

\* number of points of (-89..=89).step_by(2)
MeridianSamples == 90

\* The PlanetCalcResult of calculate_planet_lines; a polyline is carried as
\* its number of points, and `gap` says that the horizon sampling loops
\* found no point for this body.
calculate_planet_lines(planet, gap) ==
    [position     |-> [planet |-> planet],
     mc_line      |-> [planet |-> planet, line_type |-> "MC",
                       points |-> MeridianSamples],
     ic_line      |-> [planet |-> planet, line_type |-> "IC",
                       points |-> MeridianSamples],
     asc_line     |-> [planet |-> planet, line_type |-> "ASC",
                       points |-> IF gap THEN 0 ELSE MeridianSamples],
     dsc_line     |-> [planet |-> planet, line_type |-> "DSC",
                       points |-> IF gap THEN 0 ELSE MeridianSamples],
     zenith_point |-> [planet |-> planet]]

\* a flatten loop that leaves out the lines without points
push_lines_nonempty(lines, pr) ==
    lines \o SelectSeq(<<pr.mc_line, pr.ic_line, pr.asc_line, pr.dsc_line>>,
                       LAMBDA l : l.points > 0)

\* the four planetary_lines.push of one loop iteration
push_lines(lines, pr) ==
    lines \o <<pr.mc_line, pr.ic_line, pr.asc_line, pr.dsc_line>>

RECURSIVE flatten_results(_)
\* for pr in planet_results { ... }
flatten_results(prs) ==
    IF prs = <<>> THEN EmptyResult
    ELSE LET r  == flatten_results(Front(prs))
             pr == Last(prs)
         IN  [planetary_positions |->
                  Append(r.planetary_positions, pr.position),
              planetary_lines |-> push_lines(r.planetary_lines, pr),
              zenith_points |-> Append(r.zenith_points, pr.zenith_point)]

\* a result slot not yet written
NoResult == [position |-> [planet |-> ""]]

LinesInit ==
    /\ pc = "planets"
    /\ config = balanced
    /\ parallel_feature \in BOOLEAN
    /\ equatorial \in {{}, {1}, {2}, {1, 2}, {12}}
    /\ planet_results = [i \in 1..Len(planets) |-> NoResult]
    /\ planet_done = {}
    /\ result = EmptyResult
    /\ ScoreIdle
    /\ RankIdle
    /\ CountryIdle
    /\ GeoIdle
    /\ CallIdle

\* planets.iter().map(...): the next body in input order
SeqPlanetLines ==
    /\ pc = "planets"
    /\ ~parallel_feature
    /\ Cardinality(planet_done) < Len(planets)
    /\ LET i == Cardinality(planet_done) + 1
       IN  /\ planet_results' =
                  [planet_results EXCEPT
                      ![i] = calculate_planet_lines(planets[i],
                                                    i \in equatorial)]
           /\ planet_done' = planet_done \cup {i}
    /\ UNCHANGED <<callVars,
                   geoVars, pc, config, scoreVars, rankVars, countryVars,
                   parallel_feature, equatorial, result>>

\* planets.par_iter().map(...): a worker finishes body i; collect puts its
\* result at position i
ParPlanetLines(i) ==
    /\ pc = "planets"
    /\ parallel_feature
    /\ i \in (1..Len(planets)) \ planet_done
    /\ planet_results' =
           [planet_results EXCEPT
               ![i] = calculate_planet_lines(planets[i], i \in equatorial)]
    /\ planet_done' = planet_done \cup {i}
    /\ UNCHANGED <<callVars,
                   geoVars, pc, config, scoreVars, rankVars, countryVars,
                   parallel_feature, equatorial, result>>

\* the flatten loop over planet_results
FlattenResults ==
    /\ pc = "planets"
    /\ planet_done = 1..Len(planets)
    /\ result' = flatten_results(planet_results)
    /\ pc' = "flattened"
    /\ UNCHANGED <<callVars,
                   geoVars, config, scoreVars, rankVars, countryVars,
                   parallel_feature, equatorial, planet_results, planet_done>>

LinesNext ==
    \/ SeqPlanetLines
    \/ \E i \in 1..Len(planets) : ParPlanetLines(i)
    \/ FlattenResults

LinesSpec == LinesInit /\ [][LinesNext]_vars

----------------------------------------------------------------------------
(* Spherical geometry.  Angles and coordinates are integers in hundredths  *)
(* of a degree, sines and cosines in 1/10000, sin^2 in 1/100000000,        *)
(* distances in whole km.  A point is <<lat, lon>>.                        *)

\* hundredths of a degree per degree
Deg == 100

\* unit of the sine and cosine values
TrigScale == 10000

EARTH_RADIUS_KM == 6371

\* round(10000 * sin(d degrees)), d = 0..90, at index d + 1
SinTable ==
    <<
      0, 175, 349, 523, 698, 872, 1045, 1219, 1392, 1564,
      1736, 1908, 2079, 2250, 2419, 2588, 2756, 2924, 3090, 3256,
      3420, 3584, 3746, 3907, 4067, 4226, 4384, 4540, 4695, 4848,
      5000, 5150, 5299, 5446, 5592, 5736, 5878, 6018, 6157, 6293,
      6428, 6561, 6691, 6820, 6947, 7071, 7193, 7314, 7431, 7547,
      7660, 7771, 7880, 7986, 8090, 8192, 8290, 8387, 8480, 8572,
      8660, 8746, 8829, 8910, 8988, 9063, 9135, 9205, 9272, 9336,
      9397, 9455, 9511, 9563, 9613, 9659, 9703, 9744, 9781, 9816,
      9848, 9877, 9903, 9925, 9945, 9962, 9976, 9986, 9994, 9998,
      10000 >>

\* round(10^8 * sin^2(d/2 degrees)), d = 0..180, at index d + 1
SinHalfSqTable ==
    <<
      0, 7615, 30459, 68523, 121797, 190265,
      273905, 372692, 486597, 615583, 759612, 918641,
      1092620, 1281497, 1485214, 1703709, 1936915, 2184762,
      2447174, 2724071, 3015369, 3320979, 3640807, 3974757,
      4322727, 4684611, 5060298, 5449674, 5852620, 6269015,
      6698730, 7141635, 7597595, 8066472, 8548121, 9042398,
      9549150, 10068224, 10599462, 11142702, 11697778, 12264521,
      12842759, 13432315, 14033010, 14644661, 15267081, 15900082,
      16543470, 17197049, 17860620, 18533980, 19216926, 19909249,
      20610737, 21321178, 22040355, 22768048, 23504037, 24248096,
      25000000, 25759519, 26526422, 27300475, 28081443, 28869087,
      29663168, 30463444, 31269670, 32081603, 32898993, 33721592,
      34549150, 35381415, 36218132, 37059048, 37903905, 38752447,
      39604415, 40459550, 41317591, 42178277, 43041345, 43906533,
      44773577, 45642213, 46512176, 47383202, 48255025, 49127380,
      50000000, 50872620, 51744975, 52616798, 53487824, 54357787,
      55226423, 56093467, 56958655, 57821723, 58682409, 59540450,
      60395585, 61247553, 62096095, 62940952, 63781868, 64618585,
      65450850, 66278408, 67101007, 67918397, 68730330, 69536556,
      70336832, 71130913, 71918557, 72699525, 73473578, 74240481,
      75000000, 75751904, 76495963, 77231952, 77959645, 78678822,
      79389263, 80090751, 80783074, 81466020, 82139380, 82802951,
      83456530, 84099918, 84732919, 85355339, 85966990, 86567685,
      87157241, 87735479, 88302222, 88857298, 89400538, 89931776,
      90450850, 90957602, 91451879, 91933528, 92402405, 92858365,
      93301270, 93730985, 94147380, 94550326, 94939702, 95315389,
      95677273, 96025243, 96359193, 96679021, 96984631, 97275929,
      97552826, 97815238, 98063085, 98296291, 98514786, 98718503,
      98907380, 99081359, 99240388, 99384417, 99513403, 99627308,
      99726095, 99809735, 99878203, 99931477, 99969541, 99992385,
      100000000 >>

\* the value f hundredths of the way from table entry lo to table entry hi
Interpolate(lo, hi, f) == lo + ((hi - lo) * f) \div Deg

\* sin on [0, 90] degrees, linear between the table entries
SinQuadrant(x) ==
    Interpolate(SinTable[x \div Deg + 1],
                SinTable[(x + Deg - 1) \div Deg + 1], x % Deg)

\* f64::sin of an angle given in degrees: the sign of the half turn times
\* the sine of the angle folded into [0, 90]
Sin(x) ==
    LET r == x % (360 * Deg)
    IN  (IF r <= 180 * Deg THEN 1 ELSE -1)
            * SinQuadrant(IF r <= 90 * Deg THEN r
                          ELSE IF r <= 180 * Deg THEN 180 * Deg - r
                          ELSE IF r <= 270 * Deg THEN r - 180 * Deg
                          ELSE 360 * Deg - r)

\* f64::cos of an angle given in degrees
Cos(x) == Sin(90 * Deg - x)

\* (x / 2).sin().powi(2) of an angle given in degrees
SinHalfSq(x) ==
    LET r == x % (360 * Deg)
        h == IF r > 180 * Deg THEN 360 * Deg - r ELSE r
    IN  Interpolate(SinHalfSqTable[h \div Deg + 1],
                    SinHalfSqTable[(h + Deg - 1) \div Deg + 1], h % Deg)

\* the angle in degree d whose sine s lies between the table entries lo, hi
InverseInterpolate(s, d, lo, hi) == d * Deg + ((s - lo) * Deg) \div (hi - lo)

\* asin of s, of which d is the whole number of degrees
AsinFrom(s, d) == InverseInterpolate(s, d, SinTable[d + 1], SinTable[d + 2])

\* f64::asin on [0, 1], in hundredths of a degree
AsinPos(s) ==
    IF s >= TrigScale THEN 90 * Deg
    ELSE AsinFrom(s, Cardinality({ k \in 1..89 : SinTable[k + 1] <= s }))

\* f64::acos on [-1, 1]
Acos(r) == 90 * Deg - (IF r >= 0 THEN 1 ELSE -1) * AsinPos(Abs(r))

\* x * h / 10000 for x in 1/10000 and h up to 10^8, without overflow
MulTrig(x, h) ==
    x * (h \div TrigScale) + (x * (h % TrigScale)) \div TrigScale

\* EARTH_RADIUS_KM * c for an angle c in hundredths of a degree:
\* 6371 * pi / 18000 = 1.11195 km
KmOfAngle(c) == (c * 11119) \div 10000

\* the angle c of haversine_distance; atan2(sqrt(a), sqrt(1 - a)) = asin(sqrt(a))
haversine_angle(lat1, lon1, lat2, lon2) ==
    2 * AsinPos(ISqrt(Clamp(
            SinHalfSq(lat2 - lat1)
                + MulTrig((Cos(lat1) * Cos(lat2)) \div TrigScale,
                          SinHalfSq(lon2 - lon1)),
            0, TrigScale * TrigScale)))

haversine_distance(lat1, lon1, lat2, lon2) ==
    KmOfAngle(haversine_angle(lat1, lon1, lat2, lon2))

\* <<x, y>> of a bearing from the sines and cosines of the two latitudes and
\* of the longitude difference
bearing_xy(sin1, cos1, sin2, cos2, sin_dlon, cos_dlon) ==
    << (cos1 * sin2) \div TrigScale
           - (((sin1 * cos2) \div TrigScale) * cos_dlon) \div TrigScale,
       (sin_dlon * cos2) \div TrigScale >>

\* the vector <<x, y>> whose atan2(y, x) is the initial bearing from point 1
\* to point 2
bearing_vector(lat1, lon1, lat2, lon2) ==
    bearing_xy(Sin(lat1), Cos(lat1), Sin(lat2), Cos(lat2),
               Sin(lon2 - lon1), Cos(lon2 - lon1))

\* atan2(0, 0) = 0: a null vector bears north
bearing_or_north(v) == IF v = <<0, 0>> THEN <<TrigScale, 0>> ELSE v

\* dxt: asin of |sin(d13) * sin(bearing_13 - bearing_12)|, where the length
\* of the vector v13 is sin(d13)
cross_track_angle(v13, v12) ==
    AsinPos(Clamp(Abs(v13[2] * v12[1] - v13[1] * v12[2])
                      \div ISqrt(v12[1] * v12[1] + v12[2] * v12[2]),
                  0, TrigScale))

\* (d13.cos() / safe_denom).clamp(-1.0, 1.0)
cos_d13_over_cos_xt(cos_d13, cos_dxt) ==
    IF cos_dxt = 0
    THEN (IF cos_d13 > 0 THEN TrigScale
          ELSE IF cos_d13 < 0 THEN -TrigScale ELSE 0)
    ELSE Clamp((cos_d13 * TrigScale) \div cos_dxt, -TrigScale, TrigScale)

\* sign * dat_abs * EARTH_RADIUS_KM, the sign being that of
\* cos(bearing_13 - bearing_12)
along_track(d13, dxt, v13, v12) ==
    (IF v13[1] * v12[1] + v13[2] * v12[2] >= 0 THEN 1 ELSE -1)
        * KmOfAngle(Acos(cos_d13_over_cos_xt(Cos(d13), Cos(dxt))))

cross_and_along(d13, dxt, v13, v12) ==
    <<KmOfAngle(dxt), along_track(d13, dxt, v13, v12)>>

cross_track_from(d13, v13, v12) ==
    cross_and_along(d13, cross_track_angle(v13, v12), v13, v12)

\* Returns <<cross_track, along_track>> in km
cross_track_distance(lat_pt, lon_pt, lat1, lon1, lat2, lon2) ==
    cross_track_from(haversine_angle(lat_pt, lon_pt, lat1, lon1),
                     bearing_vector(lat1, lon1, lat_pt, lon_pt),
                     bearing_or_north(bearing_vector(lat1, lon1, lat2, lon2)))

\* the endpoint clamping of distance_to_line_segment_internal
clamp_to_segment(ct, segment_length, to_start, to_end) ==
    IF ct[2] < 0 THEN to_start
    ELSE IF ct[2] > segment_length THEN to_end
    ELSE ct[1]

distance_to_line_segment_internal(lat_pt, lon_pt, lat1, lon1, lat2, lon2) ==
    clamp_to_segment(
        cross_track_distance(lat_pt, lon_pt, lat1, lon1, lat2, lon2),
        haversine_distance(lat1, lon1, lat2, lon2),
        haversine_distance(lat_pt, lon_pt, lat1, lon1),
        haversine_distance(lat_pt, lon_pt, lat2, lon2))

RECURSIVE unwrap_delta(_)
\* the two while loops of unwrap_longitude
unwrap_delta(delta) ==
    IF delta > 180 * Deg THEN unwrap_delta(delta - 360 * Deg)
    ELSE IF delta < -180 * Deg THEN unwrap_delta(delta + 360 * Deg)
    ELSE delta

unwrap_longitude(lon, ref_lon) == ref_lon + unwrap_delta(lon - ref_lon)

\* <<cross_lat, crossing_lon>>; called only when |lon2 - lon1| > 180
interpolate_dateline_crossing(lat1, lon1, lat2, lon2) ==
    LET lon2_unwrapped == unwrap_longitude(lon2, lon1)
        crossing_lon == IF lon2_unwrapped > lon1 THEN 180 * Deg
                        ELSE -180 * Deg
    IN  <<lat1 + ((crossing_lon - lon1) * (lat2 - lat1))
                     \div (lon2_unwrapped - lon1),
          crossing_lon>>

\* the two sub-segments [start -> crossing] and [crossing -> end]
split_at_crossing(crossing, lat1, lon1, lat2, lon2) ==
    { <<lat1, lon1, crossing[1], crossing[2]>>,
      <<crossing[1],
        IF crossing[2] = 180 * Deg THEN -180 * Deg ELSE 180 * Deg,
        lat2, lon2>> }

\* the segments distance_to_line_segment measures: the segment itself, or
\* its two parts when it crosses the date line
dateline_split(lat1, lon1, lat2, lon2) ==
    IF Abs(lon2 - lon1) > 180 * Deg
    THEN split_at_crossing(
             interpolate_dateline_crossing(lat1, lon1, lat2, lon2),
             lat1, lon1, lat2, lon2)
    ELSE { <<lat1, lon1, lat2, lon2>> }

distance_to_line_segment(lat_pt, lon_pt, lat1, lon1, lat2, lon2) ==
    SetMin({ distance_to_line_segment_internal(lat_pt, lon_pt,
                                               s[1], s[2], s[3], s[4]) :
               s \in dateline_split(lat1, lon1, lat2, lon2) })

\* the loop of distance_to_polyline: the least distance over the segments
min_segment_distance(city_lat, city_lon, line_points) ==
    SetMin({ distance_to_line_segment(city_lat, city_lon,
                                      line_points[i][1], line_points[i][2],
                                      line_points[i + 1][1],
                                      line_points[i + 1][2]) :
               i \in 1..Len(line_points) - 1 })

distance_to_polyline(city_lat, city_lon, line_points) ==
    IF line_points = <<>> THEN INFINITY
    ELSE IF Len(line_points) = 1
    THEN haversine_distance(city_lat, city_lon,
                            line_points[1][1], line_points[1][2])
    ELSE min_segment_distance(city_lat, city_lon, line_points)

----------------------------------------------------------------------------
(* Spatial pre-filtering: LineBoundingBox *)

\* LineBoundingBox::from_points; buffer_deg = buffer_km / 111.32
from_points(points, buffer_km) ==
    IF points = <<>>
    THEN [min_lat |-> -90 * Deg, max_lat |-> 90 * Deg,
          min_lon |-> -180 * Deg, max_lon |-> 180 * Deg, buffer_deg |-> 0]
    ELSE LET lats == { points[i][1] : i \in 1..Len(points) }
             lons == { points[i][2] : i \in 1..Len(points) }
         IN  [min_lat |-> SetMin(lats), max_lat |-> SetMax(lats),
              min_lon |-> SetMin(lons), max_lon |-> SetMax(lons),
              buffer_deg |-> (buffer_km * 100 * Deg) \div 11132]

\* LineBoundingBox::might_contain
might_contain(bbox, city_lat, city_lon) ==
    LET lat_in_range ==
            /\ city_lat >= bbox.min_lat - bbox.buffer_deg
            /\ city_lat <= bbox.max_lat + bbox.buffer_deg
        lon_in_range ==
            IF bbox.min_lon > bbox.max_lon
            THEN \/ city_lon >= bbox.min_lon - bbox.buffer_deg
                 \/ city_lon <= bbox.max_lon + bbox.buffer_deg
            ELSE /\ city_lon >= bbox.min_lon - bbox.buffer_deg
                 /\ city_lon <= bbox.max_lon + bbox.buffer_deg
    IN  IF ~lat_in_range THEN FALSE ELSE lon_in_range

\* OptimizedLine::from_line_data
optimized_line(line, max_distance_km) ==
    [planet |-> line.planet, angle |-> line.angle, rating |-> line.rating,
     aspect |-> line.aspect, points |-> line.points,
     bbox |-> from_points(line.points, max_distance_km)]

----------------------------------------------------------------------------
(* Douglas-Peucker simplification and the fast distance path *)

\* in hundredths of a degree, x = lat and y = lon
perpendicular_distance(point, line_start, line_end) ==
    LET px == point[1]
        py == point[2]
        x1 == line_start[1]
        y1 == line_start[2]
        x2 == line_end[1]
        y2 == line_end[2]
        dx == x2 - x1
        dy == y2 - y1
    IN  IF dx = 0 /\ dy = 0
        THEN ISqrt((px - x1) * (px - x1) + (py - y1) * (py - y1))
        ELSE Abs(dy * px - dx * py + x2 * y1 - y2 * x1)
                 \div ISqrt(dx * dx + dy * dy)

\* the loop over the interior points: <<max_dist, max_idx>>, the first of
\* the farthest points winning (strict >), <<0, first index>> when no
\* interior point is off the chord
farthest_point(points) ==
    LET interior == 2..Len(points) - 1
        dist == [i \in interior |->
                    perpendicular_distance(points[i], points[1],
                                           points[Len(points)])]
        max_dist == SetMax({ dist[i] : i \in interior } \cup {0})
    IN  IF max_dist = 0 THEN <<0, 1>>
        ELSE <<max_dist, SetMin({ i \in interior : dist[i] = max_dist })>>

RECURSIVE simplify_polyline(_, _)
RECURSIVE simplify_around(_, _, _)
\* the junction point left in both halves
simplify_around_keep_junction(points, tolerance, far) ==
    IF far[1] > tolerance
    THEN simplify_polyline(SubSeq(points, 1, far[2]), tolerance)
             \o simplify_polyline(SubSeq(points, far[2], Len(points)),
                                  tolerance)
    ELSE <<points[1], points[Len(points)]>>

\* the two branches of simplify_polyline once the farthest point is known
simplify_around(points, tolerance, far) ==
    IF far[1] > tolerance
    THEN Front(simplify_polyline(SubSeq(points, 1, far[2]), tolerance))
             \o simplify_polyline(SubSeq(points, far[2], Len(points)),
                                  tolerance)
    ELSE <<points[1], points[Len(points)]>>

simplify_polyline(points, tolerance) ==
    IF Len(points) <= 2 THEN points
    ELSE simplify_around(points, tolerance, farthest_point(points))

\* mean of the latitudes and of the longitudes
centroid_of(points) ==
    IF points = <<>> THEN <<0, 0>>
    ELSE <<SumSeq([i \in 1..Len(points) |-> points[i][1]]) \div Len(points),
           SumSeq([i \in 1..Len(points) |-> points[i][2]]) \div Len(points)>>

\* the SimplifiedLine of a line whose simplified points are known
simplified_from(line, max_distance_km, simplified_points) ==
    [planet |-> line.planet, angle |-> line.angle,
     rating |-> line.rating, aspect |-> line.aspect,
     bbox |-> from_points(simplified_points, max_distance_km),
     points |-> simplified_points,
     centroid |-> centroid_of(simplified_points)]

\* SimplifiedLine::from_line_data
simplified_line(line, max_distance_km, simplify_tolerance) ==
    simplified_from(line, max_distance_km,
                    IF simplify_tolerance > 0
                    THEN simplify_polyline(line.points, simplify_tolerance)
                    ELSE line.points)

\* 111.32 km per degree, for a length in hundredths of a degree
KmOfDegrees(d) == (d * 11132) \div 10000

\* equirectangular estimate in km
fast_distance_estimate(lat1, lon1, lat2, lon2) ==
    LET cos_lat == Cos((lat1 + lat2) \div 2)
        dx == ((lon2 - lon1) * cos_lat) \div TrigScale
        dy == lat2 - lat1
    IN  KmOfDegrees(ISqrt(dx * dx + dy * dy))

\* Option::None of fast_distance_to_polyline
None == -1

\* Step 3: the least endpoint estimate over the segments
\* 0..len.saturating_sub(1)
min_endpoint_estimate(city_lat, city_lon, points) ==
    SetMin({ Min(fast_distance_estimate(city_lat, city_lon,
                                        points[i][1], points[i][2]),
                 fast_distance_estimate(city_lat, city_lon,
                                        points[i + 1][1], points[i + 1][2])) :
               i \in 1..Len(points) - 1 } \cup {INFINITY})

\* line bbox diagonal in km
bbox_diagonal(bbox) ==
    KmOfDegrees(ISqrt((bbox.max_lat - bbox.min_lat)
                          * (bbox.max_lat - bbox.min_lat)
                      + (bbox.max_lon - bbox.min_lon)
                            * (bbox.max_lon - bbox.min_lon)))

\* Step 5: Some(accurate_dist) within the threshold, None beyond
some_within(accurate_dist, threshold_km) ==
    IF accurate_dist <= threshold_km THEN accurate_dist ELSE None

fast_distance_to_polyline(city_lat, city_lon, line, threshold_km) ==
    IF fast_distance_estimate(city_lat, city_lon,
                              line.centroid[1], line.centroid[2])
           > bbox_diagonal(line.bbox) + threshold_km + 200
    THEN None
    ELSE IF ~might_contain(line.bbox, city_lat, city_lon) THEN None
    ELSE IF 10 * min_endpoint_estimate(city_lat, city_lon, line.points)
                > 12 * threshold_km
    THEN None
    ELSE some_within(distance_to_polyline(city_lat, city_lon, line.points),
                     threshold_km)

----------------------------------------------------------------------------
(* Geodetic scouting: scout_city, scout_cities_for_category and            *)
(* scout_cities_fast on one city and the MC and IC lines of one body       *)

\* calculate_mc_longitude and calculate_ic_longitude: the angle brought to
\* [0, 360), then to (-180, 180]
signed_longitude(angle) ==
    LET longitude_deg == angle % (360 * Deg)
    IN  IF longitude_deg > 180 * Deg THEN longitude_deg - 360 * Deg
        ELSE longitude_deg

\* the points of an MC or IC line: (-89..=89).step_by(2) at one longitude
meridian_points(longitude) ==
    [k \in 1..MeridianSamples |-> <<(2 * (k - 1) - 89) * Deg, longitude>>]

\* the LineData of the MC and IC lines of a body whose right ascension
\* minus GMST is hour_angle
meridian_lines(hour_angle) ==
    << [planet |-> "Jupiter", angle |-> "MC", rating |-> 5,
        aspect |-> NoAspect,
        points |-> meridian_points(signed_longitude(hour_angle))],
       [planet |-> "Jupiter", angle |-> "IC", rating |-> 4,
        aspect |-> NoAspect,
        points |-> meridian_points(
                       signed_longitude(hour_angle + 180 * Deg))] >>

influence_of(line, distance) ==
    [planet |-> line.planet, angle |-> line.angle, rating |-> line.rating,
     aspect |-> line.aspect, distance_km |-> distance]

\* `if distance <= config.max_distance_km { influences.push(..) }`
push_within(before, line, distance, cfg) ==
    IF distance <= cfg.max_distance_km
    THEN Append(before, influence_of(line, distance))
    ELSE before

RECURSIVE scout_city_influences(_, _, _, _)
\* scout_city: `for line in &lines` over the first j lines
scout_city_influences(city, lines, j, cfg) ==
    IF j = 0 THEN <<>>
    ELSE push_within(scout_city_influences(city, lines, j - 1, cfg),
                     lines[j],
                     distance_to_polyline(city[1], city[2], lines[j].points),
                     cfg)

\* the body of `for line in &optimized_lines`: bounding-box rejection, then
\* the full distance
push_prefiltered(before, city, line, cfg) ==
    IF ~might_contain(line.bbox, city[1], city[2]) THEN before
    ELSE push_within(before, line,
                     distance_to_polyline(city[1], city[2], line.points),
                     cfg)

RECURSIVE prefiltered_influences(_, _, _, _)
\* scout_cities_for_category: `for line in &optimized_lines` over the first
\* j lines
prefiltered_influences(city, lines, j, cfg) ==
    IF j = 0 THEN <<>>
    ELSE push_prefiltered(prefiltered_influences(city, lines, j - 1, cfg),
                          city,
                          optimized_line(lines[j], cfg.max_distance_km),
                          cfg)

\* the tolerance scout_cities_fast simplifies with: 0.1 degree
FastSimplifyTolerance == 10

\* `if let Some(distance) = .. { influences.push(..) }`
push_some(before, line, distance) ==
    IF distance # None THEN Append(before, influence_of(line, distance))
    ELSE before

\* the body of `for line in &simplified_lines`
push_fast(before, city, line, cfg) ==
    push_some(before, line,
              fast_distance_to_polyline(city[1], city[2], line,
                                        cfg.max_distance_km))

RECURSIVE fast_influences_of(_, _, _, _)
\* scout_cities_fast: `for line in &simplified_lines` over the first j lines
fast_influences_of(city, lines, j, cfg) ==
    IF j = 0 THEN <<>>
    ELSE push_fast(fast_influences_of(city, lines, j - 1, cfg), city,
                   simplified_line(lines[j], cfg.max_distance_km,
                                   FastSimplifyTolerance),
                   cfg)

\* the CityInfluenceSet built for the city
geo_influence_set(infl) ==
    [city_name |-> 1, country |-> "X", influences |-> infl]

\* city latitudes and longitudes, in degrees
GeoLatitudes == {0, 60, 86}

GeoLongitudes == {-179, -176, 0, 4, 5, 8, 178}

GeoCities == { <<lat * Deg, lon * Deg>> :
                 lat \in GeoLatitudes, lon \in GeoLongitudes }

\* right ascension minus GMST of the body, in degrees
GeoHourAngles == {0, 177}

GeoConfigs == {balanced, high_precision}

GeoInit ==
    /\ pc = "geo_scout_city"
    /\ config \in GeoConfigs
    /\ geo_city \in GeoCities
    /\ geo_lines \in { meridian_lines(h * Deg) : h \in GeoHourAngles }
    /\ plain_influences = <<>>
    /\ plain_score = NoScore
    /\ bbox_influences = <<>>
    /\ bbox_rankings = <<>>
    /\ fast_influences = <<>>
    /\ fast_rankings = <<>>
    /\ cities = <<>>
    /\ category = "Wealth"
    /\ sort_mode = "BenefitFirst"
    /\ city_influence_sets = <<>>
    /\ seq_rankings = <<>>
    /\ par_slots = <<>>
    /\ par_finished = <<>>
    /\ par_rankings = <<>>
    /\ ScoreIdle
    /\ CountryIdle
    /\ LinesIdle
    /\ CallIdle

\* scout_city on the city
GeoScoutCity ==
    /\ pc = "geo_scout_city"
    /\ plain_influences' = scout_city_influences(geo_city, geo_lines,
                                                 Len(geo_lines), config)
    /\ plain_score' = calculate_city_score(plain_influences', config)
    /\ pc' = "geo_scout_category"
    /\ UNCHANGED <<callVars,
                   config, scoreVars, rankVars, countryVars, linesVars,
                   geo_city, geo_lines, bbox_influences, bbox_rankings,
                   fast_influences, fast_rankings>>

\* scout_cities_for_category on the one-city list
GeoScoutCitiesForCategory ==
    /\ pc = "geo_scout_category"
    /\ bbox_influences' = prefiltered_influences(geo_city, geo_lines,
                                                 Len(geo_lines), config)
    /\ bbox_rankings' =
           rank_cities_by_category(<<geo_influence_set(bbox_influences')>>,
                                   category, config, sort_mode)
    /\ pc' = "geo_scout_fast"
    /\ UNCHANGED <<callVars,
                   config, scoreVars, rankVars, countryVars, linesVars,
                   geo_city, geo_lines, plain_influences, plain_score,
                   fast_influences, fast_rankings>>

\* scout_cities_fast on the one-city list
GeoScoutCitiesFast ==
    /\ pc = "geo_scout_fast"
    /\ fast_influences' = fast_influences_of(geo_city, geo_lines,
                                             Len(geo_lines), config)
    /\ fast_rankings' =
           rank_cities_by_category(<<geo_influence_set(fast_influences')>>,
                                   category, config, sort_mode)
    /\ pc' = "geo_done"
    /\ UNCHANGED <<callVars,
                   config, scoreVars, rankVars, countryVars, linesVars,
                   geo_city, geo_lines, plain_influences, plain_score,
                   bbox_influences, bbox_rankings>>

GeoNext ==
    \/ GeoScoutCity
    \/ GeoScoutCitiesForCategory
    \/ GeoScoutCitiesFast

GeoSpec == GeoInit /\ [][GeoNext]_vars

----------------------------------------------------------------------------
(* simplify_polyline called on its own *)

\* longest polyline handed to simplify_polyline
MaxPoints == 4

\* the vertices the polylines are drawn from
SimplifyGrid == { <<lat * Deg, lon * Deg>> : lat \in {0, 1}, lon \in {0, 1, 2} }

SimplifyPolylines ==
    UNION { [1..n -> SimplifyGrid] : n \in 0..MaxPoints }

\* tolerances in hundredths of a degree: 0, 0.1 and 1.5 degrees
SimplifyTolerances == {0, 10, 150}

SimplifyInit ==
    /\ pc = "simplify_polyline"
    /\ args \in { [points |-> p, tolerance |-> t] :
                    p \in SimplifyPolylines, t \in SimplifyTolerances }
    /\ ret = NoReturn
    /\ ProgIdle

SimplifyPolyline ==
    /\ pc = "simplify_polyline"
    /\ ret' = simplify_polyline(args.points, args.tolerance)
    /\ pc' = "returned"
    /\ UNCHANGED <<config, progVars, args>>

SimplifyNext == SimplifyPolyline

SimplifySpec == SimplifyInit /\ [][SimplifyNext]_vars

----------------------------------------------------------------------------
(* Julian dates (lib.rs).  A Julian Date is carried as a record
   [day, second] that stands for the real number
   day - 1/2 + second / 86400: every term of to_julian_date but ut / 24 is
   an integer or ends in .5, so the representation is exact.  The floors of
   the source are taken on exact rationals: 365.25 = 1461/4,
   30.6001 = 306001/10000, 36524.25 = 146097/4, 122.1 = 1221/10; none of the
   quotients of the source comes within 1e-6 of an integer it does not
   reach, so the f64 floors agree with the rational ones. *)

SecondsPerDay == 86400

\* lib.rs 805-823.  The Gregorian correction b is applied to every date.
to_julian_date_of(y, m, day, ut) ==
    [ day    |-> ((1461 * (y + 4716)) \div 4) + ((306001 * (m + 1)) \div 10000)
                 + day + (2 - (y \div 100) + ((y \div 100) \div 4)) - 1524,
      second |-> ut ]

\* A mutant that leaves January and February in their own year.
to_julian_date_unshifted(year, month, day, hour, minute, second) ==
    to_julian_date_of(year, month, day, 3600 * hour + 60 * minute + second)

to_julian_date(year, month, day, hour, minute, second) ==
    IF month <= 2
      THEN to_julian_date_of(year - 1, month + 12, day,
                             3600 * hour + 60 * minute + second)
      ELSE to_julian_date_of(year, month, day,
                             3600 * hour + 60 * minute + second)

\* i64 division truncates toward zero.
TruncDiv(x, y) == IF x >= 0 THEN x \div y ELSE -((-x) \div y)

\* lib.rs 852-858: alpha and the Gregorian day count a.
gregorian_a(z, alpha) == z + 1 + alpha - TruncDiv(alpha, 4)

calendar_a(z) ==
    IF z < 2299161 THEN z
    ELSE gregorian_a(z, (4 * z - 7468865) \div 146097)

\* lib.rs 867-877: day, month and year from b, c, d = floor(365.25 c), e.
calendar_from_e(b, c, d, e) ==
    <<(IF (IF e < 14 THEN e - 1 ELSE e - 13) > 2 THEN c - 4716 ELSE c - 4715),
      (IF e < 14 THEN e - 1 ELSE e - 13),
      b - d - ((306001 * e) \div 10000)>>

calendar_from_d(b, c, d) ==
    calendar_from_e(b, c, d, ((b - d) * 10000) \div 306001)

calendar_from_c(b, c) == calendar_from_d(b, c, (1461 * c) \div 4)

calendar_from_b(b) == calendar_from_c(b, (20 * b - 2442) \div 7305)

\* lib.rs 847-880.  z = floor(jd + 0.5).
jd_to_calendar(jd) ==
    calendar_from_b(calendar_a(jd.day + (jd.second \div SecondsPerDay)) + 1524)

\* The Gregorian calendar: the dates that to_julian_date is called with.
is_leap_year(y) == (y % 4 = 0 /\ y % 100 # 0) \/ y % 400 = 0

days_in_month(y, m) ==
    IF m = 2 THEN (IF is_leap_year(y) THEN 29 ELSE 28)
    ELSE IF m \in {4, 6, 9, 11} THEN 30 ELSE 31

FirstYear == 1600
LastYear == 2200

CalendarDates ==
    { [year |-> y, month |-> m, day |-> dd, hour |-> 12, minute |-> 0,
       second |-> 0] :
        y \in FirstYear..LastYear, m \in 1..12, dd \in 1..31 }

CalendarInit ==
    /\ pc = "to_julian_date"
    /\ args \in { a \in CalendarDates : a.day <= days_in_month(a.year, a.month) }
    /\ ret = NoReturn
    /\ ProgIdle

ToJulianDate ==
    /\ pc = "to_julian_date"
    /\ ret' = [jd |-> to_julian_date(args.year, args.month, args.day,
                                     args.hour, args.minute, args.second)]
    /\ pc' = "jd_to_calendar"
    /\ UNCHANGED <<config, progVars, args>>

JdToCalendar ==
    /\ pc = "jd_to_calendar"
    /\ ret' = [jd |-> ret.jd, calendar |-> jd_to_calendar(ret.jd)]
    /\ pc' = "calendar_returned"
    /\ UNCHANGED <<config, progVars, args>>

CalendarNext == ToJulianDate \/ JdToCalendar

CalendarSpec == CalendarInit /\ [][CalendarNext]_vars

----------------------------------------------------------------------------
(* Meridian longitudes (lib.rs).  Right ascension, GMST and hour angles are
   carried in hundredths of a degree like the longitudes they produce. *)

\* lib.rs 788-791: ((angle % 2 pi) + 2 pi) % 2 pi, in [0, 360) degrees
normalize_angle(angle) == ((angle % (360 * Deg)) + 360 * Deg) % (360 * Deg)

\* lib.rs 1511-1515: the fold of [0, 360) onto (-180, 180]
fold_longitude(longitude_deg) ==
    IF longitude_deg > 180 * Deg THEN longitude_deg - 360 * Deg
    ELSE longitude_deg

calculate_mc_longitude(right_ascension, gmst) ==
    fold_longitude(normalize_angle(right_ascension - gmst))

\* A mutant that takes the upper meridian for the lower one.
calculate_ic_longitude_upper(right_ascension, gmst) ==
    fold_longitude(normalize_angle(right_ascension - gmst))

calculate_ic_longitude(right_ascension, gmst) ==
    fold_longitude(normalize_angle(right_ascension + 180 * Deg - gmst))

\* Right ascensions and sidereal times: the quadrant boundaries, their
\* neighbours, and values outside one turn.
MeridianAngles ==
    {-9000, 0, 1, 4550, 8999, 9000, 9001, 13500, 17999, 18000, 18001, 27000,
     35999, 36000, 72000}

MeridianInit ==
    /\ pc = "calculate_mc_longitude"
    /\ args \in { [right_ascension |-> ra, gmst |-> g] :
                      ra \in MeridianAngles, g \in MeridianAngles }
    /\ ret = NoReturn
    /\ ProgIdle

CalculateMcLongitude ==
    /\ pc = "calculate_mc_longitude"
    /\ ret' = [mc |-> calculate_mc_longitude(args.right_ascension, args.gmst)]
    /\ pc' = "calculate_ic_longitude"
    /\ UNCHANGED <<config, progVars, args>>

CalculateIcLongitude ==
    /\ pc = "calculate_ic_longitude"
    /\ ret' = [mc |-> ret.mc,
               ic |-> calculate_ic_longitude(args.right_ascension, args.gmst)]
    /\ pc' = "meridians_returned"
    /\ UNCHANGED <<config, progVars, args>>

MeridianNext == CalculateMcLongitude \/ CalculateIcLongitude

MeridianSpec == MeridianInit /\ [][MeridianNext]_vars

----------------------------------------------------------------------------
(* Horizon latitudes (lib.rs 1583-1656).  Angles in hundredths of a degree,
   sines and cosines in 1/10000. *)

\* lib.rs 795-797: sin(angle).atan2(cos(angle)), the angle in (-180, 180]
normalize_signed_angle(angle) == fold_longitude(normalize_angle(angle))

\* lib.rs 1589-1590
hour_angle_at(right_ascension, gmst, longitude_deg) ==
    normalize_signed_angle(gmst + longitude_deg - right_ascension)

\* const EPS: f64 = 1e-9, rounded up to the unit of the sines: a sine or
\* cosine is below EPS when it is 0 in 1/10000.
EPS == 1

\* Option<f64>
Some(x) == <<x>>

NoLatitude == <<>>

\* f64::atan of y / x for x # 0 or y # 0, as the arc sine of
\* |y| / sqrt(x^2 + y^2) with the sign of the quotient; y / 0 is an infinity
\* of the sign of y, whose arc tangent is a quarter turn.
atan_magnitude(y, h) == AsinPos(Min((y * TrigScale) \div h, TrigScale))

atan_of_quotient(y, x) ==
    (IF (y >= 0) = (x >= 0) THEN 1 ELSE -1)
        * atan_magnitude(Abs(y), Max(ISqrt(x * x + y * y), 1))

\* lib.rs 1612-1619: tan_phi.atan() * RAD_TO_DEG, clamped
horizon_latitude_of(sin_delta, cos_delta, cos_h) ==
    Some(Clamp(atan_of_quotient(-((cos_delta * cos_h) \div TrigScale),
                                sin_delta),
               -90 * Deg, 90 * Deg))

\* A mutant without the second early return.
horizon_latitude_from_degenerate_only(sin_delta, cos_delta, cos_h) ==
    IF Abs(sin_delta) < EPS /\ Abs(cos_h) < EPS THEN NoLatitude
    ELSE horizon_latitude_of(sin_delta, cos_delta, cos_h)

\* lib.rs 1592-1619
horizon_latitude_from(sin_delta, cos_delta, cos_h) ==
    IF Abs(sin_delta) < EPS /\ Abs(cos_h) < EPS THEN NoLatitude
    ELSE IF Abs(sin_delta) < EPS THEN NoLatitude
    ELSE horizon_latitude_of(sin_delta, cos_delta, cos_h)

\* lib.rs 1583-1620
calculate_horizon_latitude(right_ascension, declination, gmst, longitude_deg) ==
    horizon_latitude_from(
        Sin(declination), Cos(declination),
        Cos(hour_angle_at(right_ascension, gmst, longitude_deg)))

\* lib.rs 1635-1649
is_all_latitudes_horizon(right_ascension, declination, gmst, longitude_deg) ==
    /\ Abs(Sin(declination)) < EPS
    /\ Abs(Cos(hour_angle_at(right_ascension, gmst, longitude_deg))) < EPS

\* lib.rs 1652-1656
is_rising(right_ascension, gmst, longitude_deg) ==
    Sin(hour_angle_at(right_ascension, gmst, longitude_deg)) < 0

\* Declinations on and next to the equator, at the obliquity and at the
\* poles; right ascensions, sidereal times and longitudes that put the hour
\* angle on and off the quadrant boundaries.
HorizonDeclinations == {-9000, -2344, -1, 0, 1, 4500, 9000}

HorizonRightAscensions == {0, 9000, 13550, 18000, 27000}

HorizonSiderealTimes == {0, 4500}

HorizonLongitudes == {-18000, -9000, -4550, 0, 4500, 9000, 18000}

HorizonInit ==
    /\ pc = "is_all_latitudes_horizon"
    /\ args \in { [right_ascension |-> ra, declination |-> dec, gmst |-> g,
                   longitude_deg |-> lng] :
                      ra \in HorizonRightAscensions,
                      dec \in HorizonDeclinations,
                      g \in HorizonSiderealTimes,
                      lng \in HorizonLongitudes }
    /\ ret = NoReturn
    /\ ProgIdle

IsAllLatitudesHorizon ==
    /\ pc = "is_all_latitudes_horizon"
    /\ ret' = [all_latitudes |->
                   is_all_latitudes_horizon(args.right_ascension,
                       args.declination, args.gmst, args.longitude_deg)]
    /\ pc' = "calculate_horizon_latitude"
    /\ UNCHANGED <<config, progVars, args>>

CalculateHorizonLatitude ==
    /\ pc = "calculate_horizon_latitude"
    /\ ret' = [all_latitudes |-> ret.all_latitudes,
               latitude |->
                   calculate_horizon_latitude(args.right_ascension,
                       args.declination, args.gmst, args.longitude_deg)]
    /\ pc' = "horizon_returned"
    /\ UNCHANGED <<config, progVars, args>>

HorizonNext == IsAllLatitudesHorizon \/ CalculateHorizonLatitude

HorizonSpec == HorizonInit /\ [][HorizonNext]_vars

----------------------------------------------------------------------------
(* The points of the planetary lines and of the aspect lines (lib.rs
   2089-2508).  A point is <<latitude, longitude>> in hundredths of a
   degree.  The position of the body comes from the ephemeris and is an
   input here; the longitude steps are those that f64 adds exactly. *)

\* f64::atan2(y, x) in (-180, 180] degrees
atan2(y, x) ==
    IF x >= 0 THEN atan_of_quotient(y, x)
    ELSE IF y >= 0 THEN atan_of_quotient(y, x) + 180 * Deg
    ELSE atan_of_quotient(y, x) - 180 * Deg

\* f64::asin on [-1, 1]
Asin(s) == (IF s >= 0 THEN 1 ELSE -1) * AsinPos(Min(Abs(s), TrigScale))

\* x * y of two values in 1/10000, rounded toward zero
TrigProduct(x, y) ==
    (IF (x >= 0) = (y >= 0) THEN 1 ELSE -1) * ((Abs(x) * Abs(y)) \div TrigScale)

\* lib.rs 281-286
equatorial_of(sin_lon, cos_lon, sin_lat, cos_lat, sin_eps, cos_eps) ==
    << normalize_angle(
           atan2(TrigProduct(TrigProduct(sin_lon, cos_eps), cos_lat)
                     - TrigProduct(sin_lat, sin_eps),
                 TrigProduct(cos_lon, cos_lat))),
       Asin(TrigProduct(sin_lat, cos_eps)
                + TrigProduct(TrigProduct(cos_lat, sin_eps), sin_lon)) >>

\* lib.rs 270-289: <<right ascension, declination>>
ecliptic_to_equatorial(ecl_lon, ecl_lat, obliquity) ==
    equatorial_of(Sin(ecl_lon), Cos(ecl_lon), Sin(ecl_lat), Cos(ecl_lat),
                  Sin(obliquity), Cos(obliquity))

\* The longitudes visited by
\* `let mut lng = -180.0; while lng <= 180.0 { ..; lng += step; }`
scan_longitudes(step) ==
    [k \in 1..((360 * Deg) \div step + 1) |-> (k - 1) * step - 180 * Deg]

RECURSIVE concat_chunks(_, _, _)
\* chunks[lo] \o .. \o chunks[hi]: the pushes of a loop, iteration by
\* iteration
concat_chunks(chunks, lo, hi) ==
    IF lo > hi THEN <<>>
    ELSE IF lo = hi THEN chunks[lo]
    ELSE concat_chunks(chunks, lo, (lo + hi) \div 2)
             \o concat_chunks(chunks, (lo + hi) \div 2 + 1, hi)

\* lib.rs 2134-2141 and 2381-2389: the point pushed for Some(lat) on the
\* wanted side of the meridian
horizon_point(latitude, on_side, lng) ==
    IF latitude # NoLatitude /\ on_side THEN << <<latitude[1], lng>> >>
    ELSE <<>>

\* The iteration with the side test of the vertical segment left out.
base_horizon_chunk_on_both_sides(right_ascension, declination, gmst, lng, rising) ==
    IF is_all_latitudes_horizon(right_ascension, declination, gmst, lng)
    THEN meridian_points(lng)
    ELSE horizon_point(
             calculate_horizon_latitude(right_ascension, declination, gmst,
                                        lng),
             is_rising(right_ascension, gmst, lng) = rising, lng)

\* One iteration of the ASC (rising) or DSC (~rising) loop of
\* calculate_planet_lines, lib.rs 2126-2143 and 2149-2166.
base_horizon_chunk(right_ascension, declination, gmst, lng, rising) ==
    IF is_all_latitudes_horizon(right_ascension, declination, gmst, lng)
    THEN (IF is_rising(right_ascension, gmst, lng) = rising
          THEN meridian_points(lng) ELSE <<>>)
    ELSE horizon_point(
             calculate_horizon_latitude(right_ascension, declination, gmst,
                                        lng),
             is_rising(right_ascension, gmst, lng) = rising, lng)

base_horizon_chunks(right_ascension, declination, gmst, lngs, rising) ==
    concat_chunks(
        [k \in 1..Len(lngs) |->
            base_horizon_chunk(right_ascension, declination, gmst, lngs[k],
                               rising)],
        1, Len(lngs))

\* lib.rs 2119-2120
adaptive_step(declination, longitude_step) ==
    IF Abs(declination) < 10 * Deg THEN Deg \div 2 ELSE longitude_step

\* lib.rs 2102-2106
mc_points(position, gmst) ==
    meridian_points(calculate_mc_longitude(position.right_ascension, gmst))

\* lib.rs 2109-2113
ic_points(position, gmst) ==
    meridian_points(calculate_ic_longitude(position.right_ascension, gmst))

\* lib.rs 2123-2144
asc_points(position, gmst, longitude_step) ==
    base_horizon_chunks(
        position.right_ascension, position.declination, gmst,
        scan_longitudes(adaptive_step(position.declination, longitude_step)),
        TRUE)

\* lib.rs 2147-2167
dsc_points(position, gmst, longitude_step) ==
    base_horizon_chunks(
        position.right_ascension, position.declination, gmst,
        scan_longitudes(adaptive_step(position.declination, longitude_step)),
        FALSE)

\* lib.rs 2169-2210: the four lines of the PlanetCalcResult
planet_lines(position, gmst, longitude_step) ==
    << [planet |-> position.planet, line_type |-> "MC",
        points |-> mc_points(position, gmst)],
       [planet |-> position.planet, line_type |-> "IC",
        points |-> ic_points(position, gmst)],
       [planet |-> position.planet, line_type |-> "ASC",
        points |-> asc_points(position, gmst, longitude_step)],
       [planet |-> position.planet, line_type |-> "DSC",
        points |-> dsc_points(position, gmst, longitude_step)] >>

\* lib.rs 2229-2233
ASPECTS ==
    << [angle_deg |-> 120 * Deg, name |-> "trine", is_harmonious |-> TRUE],
       [angle_deg |-> 60 * Deg, name |-> "sextile", is_harmonious |-> TRUE],
       [angle_deg |-> 90 * Deg, name |-> "square", is_harmonious |-> FALSE] >>

\* lib.rs 2276-2282: <<right ascension, declination>> of the point of the
\* ecliptic at the aspect angle from the body
shifted_equatorial(position, aspect, direction, obliquity) ==
    ecliptic_to_equatorial(
        (position.ecliptic_longitude + aspect.angle_deg * direction)
            % (360 * Deg),
        0, obliquity)

\* lib.rs 2293-2305
aspect_line(position, aspect, direction, angle, points) ==
    [planet |-> position.planet, angle |-> angle,
     aspect_type |-> IF direction > 0 THEN <<aspect.name, "+">>
                     ELSE <<aspect.name, "-">>,
     is_harmonious |-> aspect.is_harmonious,
     points |-> points]

\* lib.rs 2268-2306
calculate_aspect_to_mc(position, aspect, gmst, direction, obliquity) ==
    aspect_line(position, aspect, direction, "MC",
        meridian_points(calculate_mc_longitude(
            shifted_equatorial(position, aspect, direction, obliquity)[1],
            gmst)))

\* lib.rs 2312-2345
calculate_aspect_to_ic(position, aspect, gmst, direction, obliquity) ==
    aspect_line(position, aspect, direction, "IC",
        meridian_points(calculate_ic_longitude(
            shifted_equatorial(position, aspect, direction, obliquity)[1],
            gmst)))

\* lib.rs 2379-2392 and 2438-2451: the sampling loop of an ASC (rising) or
\* DSC (~rising) aspect line
aspect_horizon_points(shifted, gmst, lngs, rising) ==
    concat_chunks(
        [k \in 1..Len(lngs) |->
            horizon_point(
                calculate_horizon_latitude(shifted[1], shifted[2], gmst,
                                           lngs[k]),
                is_rising(shifted[1], gmst, lngs[k]) = rising, lngs[k])],
        1, Len(lngs))

\* lib.rs 2394-2411: None for a line without points; the lines are pushed
\* by the caller, so Some(line) is <<line>> and None is <<>>
aspect_line_if_any(position, aspect, direction, angle, points) ==
    IF points = <<>> THEN <<>>
    ELSE <<aspect_line(position, aspect, direction, angle, points)>>

\* lib.rs 2361-2412
calculate_aspect_to_asc(position, aspect, gmst, longitude_step, direction, obliquity) ==
    aspect_line_if_any(position, aspect, direction, "ASC",
        aspect_horizon_points(
            shifted_equatorial(position, aspect, direction, obliquity),
            gmst, scan_longitudes(longitude_step), TRUE))

\* lib.rs 2420-2471
calculate_aspect_to_dsc(position, aspect, gmst, longitude_step, direction, obliquity) ==
    aspect_line_if_any(position, aspect, direction, "DSC",
        aspect_horizon_points(
            shifted_equatorial(position, aspect, direction, obliquity),
            gmst, scan_longitudes(longitude_step), FALSE))

\* lib.rs 2484-2503: the pushes of one pass of the inner loop
aspect_lines_of(position, aspect, gmst, longitude_step, direction, obliquity) ==
    << calculate_aspect_to_mc(position, aspect, gmst, direction, obliquity),
       calculate_aspect_to_ic(position, aspect, gmst, direction, obliquity) >>
      \o calculate_aspect_to_asc(position, aspect, gmst, longitude_step,
                                 direction, obliquity)
      \o calculate_aspect_to_dsc(position, aspect, gmst, longitude_step,
                                 direction, obliquity)

\* lib.rs 2474-2508: for aspect in &ASPECTS, for direction in [-1, 1]
calculate_planet_aspect_lines(position, gmst, longitude_step, obliquity) ==
    concat_chunks(
        [k \in 1..6 |->
            aspect_lines_of(position, ASPECTS[(k + 1) \div 2], gmst,
                            longitude_step,
                            IF k % 2 = 1 THEN -1 ELSE 1, obliquity)],
        1, 6)

\* Positions: declinations in and out of the band of the 0.5 degree step
\* and on the equator; ecliptic longitudes of which an aspect point falls
\* on an equinox (60, 90), and others.
LinePositions ==
    { [planet |-> "Mars", right_ascension |-> ra, declination |-> dec,
       ecliptic_longitude |-> lon] :
          ra \in {0, 9000, 20050},
          dec \in {-2344, 0, 1500},
          lon \in {1000, 6000, 9000, 20000} }

LineSiderealTimes == {0, 4500, 10025}

\* Steps that divide the scan evenly, so that it ends at 180.
LongitudeSteps == {3000, 4500, 9000}

Obliquities == {2344}

PlanetLinesInit ==
    /\ pc = "calculate_planet_lines"
    /\ args \in { [position |-> p, gmst |-> g, longitude_step |-> s,
                   obliquity |-> e] :
                      p \in LinePositions, g \in LineSiderealTimes,
                      s \in LongitudeSteps, e \in Obliquities }
    /\ ret = NoReturn
    /\ ProgIdle

CalculatePlanetLines ==
    /\ pc = "calculate_planet_lines"
    /\ ret' = [lines |-> planet_lines(args.position, args.gmst,
                                      args.longitude_step)]
    /\ pc' = "calculate_planet_aspect_lines"
    /\ UNCHANGED <<config, progVars, args>>

CalculatePlanetAspectLines ==
    /\ pc = "calculate_planet_aspect_lines"
    /\ ret' = [lines |-> ret.lines,
               aspect_lines |->
                   calculate_planet_aspect_lines(args.position, args.gmst,
                       args.longitude_step, args.obliquity)]
    /\ pc' = "lines_returned"
    /\ UNCHANGED <<config, progVars, args>>

PlanetLinesNext == CalculatePlanetLines \/ CalculatePlanetAspectLines

PlanetLinesSpec == PlanetLinesInit /\ [][PlanetLinesNext]_vars

----------------------------------------------------------------------------
(* Parans (lib.rs 2517-2713) *)

NoLongitude == <<>>

\* lib.rs 2541-2556: cos(H) = -tan(lat) * tan(dec), given as the quotient
\* of num = sin(lat) sin(dec) and den = cos(lat) cos(dec); None when
\* |cos(H)| > 1.  0 * tan(90 deg) is 0 in f64, tan(90 deg) being finite.
horizon_hour_angle(num, den) ==
    IF Abs(num) > Abs(den) THEN NoLongitude
    ELSE IF den = 0 THEN Some(Acos(0))
    ELSE Some(Acos((IF (num >= 0) = (den >= 0) THEN -1 ELSE 1)
                       * ((Abs(num) * TrigScale) \div Abs(den))))

\* lib.rs 2548-2556: ASC takes -h, DSC takes h
longitude_at_hour_angle(right_ascension, gmst, h, angle_type) ==
    IF h = NoLongitude THEN NoLongitude
    ELSE Some(fold_longitude(normalize_angle(
             right_ascension
                 + (IF angle_type = "ASC" THEN -h[1] ELSE h[1]) - gmst)))

\* lib.rs 2517-2564
get_longitude_for_angle_at_latitude(right_ascension, declination, gmst, latitude, angle_type) ==
    CASE angle_type = "MC" ->
             Some(calculate_mc_longitude(right_ascension, gmst))
      [] angle_type = "IC" ->
             Some(calculate_ic_longitude(right_ascension, gmst))
      [] angle_type \in {"ASC", "DSC"} ->
             longitude_at_hour_angle(
                 right_ascension, gmst,
                 horizon_hour_angle(
                     TrigProduct(Sin(latitude), Sin(declination)),
                     TrigProduct(Cos(latitude), Cos(declination))),
                 angle_type)
      [] OTHER -> NoLongitude

\* lib.rs 2592-2595, 2629-2632 and 2671-2674: |lng1 - lng2|, folded at 180
fold_difference(lng_diff) ==
    IF lng_diff > 180 * Deg THEN 360 * Deg - lng_diff ELSE lng_diff

\* A mutant without the fold.
longitude_difference_unfolded(lng1, lng2) == Abs(lng1 - lng2)

longitude_difference(lng1, lng2) == fold_difference(Abs(lng1 - lng2))

paran(pos1, angle1, pos2, angle2, latitude, longitude) ==
    [planet1 |-> pos1.planet, angle1 |-> angle1,
     planet2 |-> pos2.planet, angle2 |-> angle2,
     latitude |-> latitude, longitude |-> Some(longitude),
     is_latitude_circle |-> FALSE]

\* lib.rs 2580-2591
meridian_longitude(pos, angle, gmst) ==
    IF angle = "MC" THEN calculate_mc_longitude(pos.right_ascension, gmst)
    ELSE calculate_ic_longitude(pos.right_ascension, gmst)

\* lib.rs 2592-2609, Case 1
meridian_paran(pos1, pos2, angle1, angle2, lng1, lng2) ==
    IF longitude_difference(lng1, lng2) < 2 * Deg
    THEN <<paran(pos1, angle1, pos2, angle2, 0, lng1)>>
    ELSE <<>>

\* The latitudes of `let mut lat = -66.0; while lat <= 66.0 { lat += 0.25 }`
ScanLatitudes == [k \in 1..529 |-> (k - 1) * (Deg \div 4) - 66 * Deg]

\* lib.rs 2686-2689: the mean of two longitudes across the +/-180 meridian
wrapped_average(n1, n2) ==
    IF (n1 + n2) \div 2 > 180 * Deg THEN (n1 + n2) \div 2 - 360 * Deg
    ELSE (n1 + n2) \div 2

\* lib.rs 2685-2692
avg_lng(lng1, lng2) ==
    IF Abs(lng1 - lng2) > 180 * Deg
    THEN wrapped_average(IF lng1 < 0 THEN lng1 + 360 * Deg ELSE lng1,
                         IF lng2 < 0 THEN lng2 + 360 * Deg ELSE lng2)
    ELSE (lng1 + lng2) \div 2

\* lib.rs 2626-2642 and 2667-2695: what one pass of the scan offers as the
\* new best, <<lat, lng, lng_diff>>, or <<>> when a longitude is missing or
\* the difference is not below 1 degree
crossing_at(lat, lng1, lng2) ==
    IF lng1 = NoLongitude \/ lng2 = NoLongitude THEN <<>>
    ELSE IF longitude_difference(lng1[1], lng2[1]) < Deg
    THEN <<lat, avg_lng(lng1[1], lng2[1]),
           longitude_difference(lng1[1], lng2[1])>>
    ELSE <<>>

\* A mutant that keeps the first crossing it finds.
is_better_first(best, candidate) == best = <<>> /\ candidate # <<>>

\* lib.rs 2635-2638 and 2678-2681: None => true, Some(prev) => lng_diff < prev_diff
is_better(best, candidate) ==
    /\ candidate # <<>>
    /\ (best = <<>> \/ candidate[3] < best[3])

keep_better(best, candidate) ==
    IF is_better(best, candidate) THEN candidate ELSE best

RECURSIVE best_crossing(_, _, _)
\* The best crossing after the passes lo..hi of the scan; a later pass
\* replaces an earlier one only with a strictly smaller difference, so the
\* passes can be taken half by half.
best_crossing(crossings, lo, hi) ==
    IF lo = hi THEN crossings[lo]
    ELSE keep_better(best_crossing(crossings, lo, (lo + hi) \div 2),
                     best_crossing(crossings, (lo + hi) \div 2 + 1, hi))

\* lib.rs 2625-2645 and 2666-2698: the crossings of the two lines, latitude by latitude
scan_crossings(pos1, pos2, angle1, angle2, gmst) ==
    [k \in 1..Len(ScanLatitudes) |->
        crossing_at(
            ScanLatitudes[k],
            get_longitude_for_angle_at_latitude(
                pos1.right_ascension, pos1.declination, gmst,
                ScanLatitudes[k], angle1),
            get_longitude_for_angle_at_latitude(
                pos2.right_ascension, pos2.declination, gmst,
                ScanLatitudes[k], angle2))]

\* lib.rs 2647-2657 and 2700-2710.  With angle1 on the meridian (Case 2)
\* the paran takes the longitude of that meridian, otherwise (Case 3) the
\* mean longitude of the best crossing.
scanned_paran(pos1, pos2, angle1, angle2, gmst, best) ==
    IF best = <<>> THEN <<>>
    ELSE <<paran(pos1, angle1, pos2, angle2, best[1],
                 IF angle1 \in {"MC", "IC"}
                 THEN meridian_longitude(pos1, angle1, gmst)
                 ELSE best[2])>>

\* lib.rs 2568-2713
calculate_paran(pos1, pos2, angle1, angle2, gmst) ==
    IF angle1 \in {"MC", "IC"} /\ angle2 \in {"MC", "IC"}
    THEN meridian_paran(pos1, pos2, angle1, angle2,
                        meridian_longitude(pos1, angle1, gmst),
                        meridian_longitude(pos2, angle2, gmst))
    ELSE scanned_paran(pos1, pos2, angle1, angle2, gmst,
             best_crossing(scan_crossings(pos1, pos2, angle1, angle2, gmst),
                           1, Len(ScanLatitudes)))

\* Bodies close in right ascension, on both sides of the +/-180 meridian,
\* and far apart; one of them circumpolar beyond latitude 20.
ParanPositions ==
    { [planet |-> "Sun", right_ascension |-> 17950, declination |-> 2000],
      [planet |-> "Moon", right_ascension |-> 18050, declination |-> -1500],
      [planet |-> "Mars", right_ascension |-> 18200, declination |-> 7000],
      [planet |-> "Venus", right_ascension |-> 100, declination |-> 0],
      [planet |-> "Saturn", right_ascension |-> 9300, declination |-> -2344] }

ParanAngles == {"MC", "IC", "ASC", "DSC"}

ParanSiderealTimes == {0, 4500}

ParanInit ==
    /\ pc = "calculate_paran"
    /\ args \in { [pos1 |-> p1, pos2 |-> p2, angle1 |-> a1, angle2 |-> a2,
                   gmst |-> g] :
                      p1 \in ParanPositions, p2 \in ParanPositions,
                      a1 \in ParanAngles, a2 \in ParanAngles,
                      g \in ParanSiderealTimes }
    /\ ret = NoReturn
    /\ ProgIdle

CalculateParan ==
    /\ pc = "calculate_paran"
    /\ ret' = calculate_paran(args.pos1, args.pos2, args.angle1, args.angle2,
                              args.gmst)
    /\ pc' = "paran_returned"
    /\ UNCHANGED <<config, progVars, args>>

ParanNext == CalculateParan

ParanSpec == ParanInit /\ [][ParanNext]_vars

----------------------------------------------------------------------------
(* Local civil time (lib.rs 1041-1083 and 1819-1970).  The timezone lookup
   of tzf-rs and chrono-tz is an input: whether the name parses, and the
   offset from UTC, in seconds, that earliest() finds for the local time
   (None in a gap of the local clock). *)

\* chrono NaiveDate::from_ymd_opt(..).and_then(|d| d.and_hms_opt(..)),
\* lib.rs 1056-1057: Some for a date of the calendar and a time of the day
naive_datetime_opt(year, month, day, hour, minute, second) ==
    /\ month >= 1 /\ month <= 12
    /\ day >= 1 /\ day <= days_in_month(year, IF month \in 1..12 THEN month ELSE 1)
    /\ hour < 24 /\ minute < 60 /\ second < 60

\* lib.rs 1061-1069: local_dt.with_timezone(&Utc) and its calendar fields,
\* for the local day number `day` and the second `ut` of that day
utc_fields(date, second_of_day) ==
    [year |-> date[1], month |-> date[2], day |-> date[3],
     hour |-> second_of_day \div 3600,
     minute |-> (second_of_day % 3600) \div 60,
     second |-> second_of_day % 60]

utc_datetime(jd_local, offset) ==
    utc_fields(jd_to_calendar([day |-> jd_local.day,
                               second |-> jd_local.second - offset]),
               (jd_local.second - offset) % SecondsPerDay)

\* lib.rs 1071-1074
to_julian_date_of_fields(utc) ==
    to_julian_date(utc.year, utc.month, utc.day, utc.hour, utc.minute,
                   utc.second)

\* lib.rs 1080: (lng / 15.0 * 2.0).round(), in half hours; f64::round
\* rounds halves away from zero
offset_half_hours(lng) ==
    (IF lng >= 0 THEN 1 ELSE -1) * ((Abs(lng) * 4 + 15 * Deg) \div (30 * Deg))

\* lib.rs 1079-1082: jd_local - offset_hours / 24.0
fallback_julian_date(jd_local, lng) ==
    [day |-> jd_local.day,
     second |-> jd_local.second - 1800 * offset_half_hours(lng)]

\* lib.rs 1041-1083
local_to_utc_julian_date(tz_parsed, local_offset, lng, year, month, day, hour, minute, second) ==
    IF /\ tz_parsed
       /\ naive_datetime_opt(year, month, day, hour, minute, second)
       /\ local_offset # <<>>
    THEN to_julian_date_of_fields(
             utc_datetime(to_julian_date(year, month, day, hour, minute,
                                         second),
                          local_offset[1]))
    ELSE fallback_julian_date(
             to_julian_date(year, month, day, hour, minute, second), lng)

\* lib.rs 1870-1891: the lines of the twelve bodies, flattened
all_planet_lines(equatorial_bodies) ==
    flatten_results(
        [i \in 1..Len(planets) |->
            calculate_planet_lines(planets[i], i \in equatorial_bodies)])

\* lib.rs 1819-1970: the AstroResultLocal
calculate_all_lines_local(tz_parsed, local_offset, equatorial_bodies, lng, year, month, day, hour, minute, second) ==
    [julian_date |->
         local_to_utc_julian_date(tz_parsed, local_offset, lng, year, month,
                                  day, hour, minute, second),
     planetary_lines |-> all_planet_lines(equatorial_bodies).planetary_lines]

\* The error value that the entry points would return for a bad input.
InvalidInput == [error |-> "InvalidInput"]

\* Civil tuples in and out of the calendar: month 13, 29 to 31 February,
\* hour 24, minute 60.
LocalTuples ==
    { [year |-> y, month |-> m, day |-> dd, hour |-> h, minute |-> mi,
       second |-> 0] :
          y \in {1990, 2024}, m \in {1, 2, 13}, dd \in {15, 29, 30, 31},
          h \in {0, 14, 24}, mi \in {30, 60} }

\* Chennai, New York and Greenwich, with the offsets of their zones
LocalPlaces ==
    { [lng |-> 8027, local_offset |-> <<19800>>],
      [lng |-> -7400, local_offset |-> <<-18000>>],
      [lng |-> 0, local_offset |-> <<>>] }

LocalInit ==
    /\ pc = "local_to_utc_julian_date"
    /\ args \in { [civil |-> c, place |-> p, tz_parsed |-> t,
                   equatorial |-> e] :
                      c \in LocalTuples, p \in LocalPlaces, t \in BOOLEAN,
                      e \in {{}, {12}} }
    /\ ret = NoReturn
    /\ ProgIdle

LocalToUtcJulianDate ==
    /\ pc = "local_to_utc_julian_date"
    /\ ret' = [julian_date |->
                   local_to_utc_julian_date(
                       args.tz_parsed, args.place.local_offset,
                       args.place.lng, args.civil.year, args.civil.month,
                       args.civil.day, args.civil.hour, args.civil.minute,
                       args.civil.second)]
    /\ pc' = "calculate_all_lines_local"
    /\ UNCHANGED <<config, progVars, args>>

CalculateAllLinesLocal ==
    /\ pc = "calculate_all_lines_local"
    /\ ret' = calculate_all_lines_local(
                  args.tz_parsed, args.place.local_offset, args.equatorial,
                  args.place.lng, args.civil.year, args.civil.month,
                  args.civil.day, args.civil.hour, args.civil.minute,
                  args.civil.second)
    /\ pc' = "local_returned"
    /\ UNCHANGED <<config, progVars, args>>

LocalNext == LocalToUtcJulianDate \/ CalculateAllLinesLocal

LocalSpec == LocalInit /\ [][LocalNext]_vars

----------------------------------------------------------------------------
(* Delta T (lib.rs 1118-1182).  The decimal year y = year + (month - 0.5) /
   12 is carried as y24 = 24 y = 24 year + 2 month - 1, an odd integer, so
   that every comparison of y with a whole year is exact.  A polynomial is
   evaluated by Horner's rule on integers: with x = y24 - 24 origin, a
   stage <<d, c>> takes p to (p x) / d + c, where d holds the 24 (or 2400,
   for a variable in centuries) of x and a change of decimal unit chosen
   to keep p x below 2^31, and c is the next coefficient in the new unit.
   The results are in milliseconds; between 1860 and 1920 they are within
   5 ms, elsewhere between 1500 and 2150 within 110 ms, of the f64 sums
   of powers of the source. *)

horner_step(p, x, stage) == (p * x) \div stage[1] + stage[2]

RECURSIVE horner(_, _, _)
horner(p, x, stages) ==
    IF stages = <<>> THEN p
    ELSE horner(horner_step(p, x, Head(stages)), x, Tail(stages))

\* the value of a polynomial at y24, in milliseconds
polynomial_ms(poly, y24) ==
    (horner(poly.lead, y24 - 24 * poly.origin, poly.stages) \div poly.unit)
        * poly.gain

\* lib.rs 1122-1123; leading coefficient in 1e-2, result in 1e-1 s
DeltaTBefore500BCE ==
    [origin |-> 1820, lead |-> 3200,
     stages |-> << <<24000, 0>>,
                <<2400, -200>> >>,
     unit |-> 1, gain |-> 100]

\* lib.rs 1125-1128; leading coefficient in 1e-7, result in 1e-2 s
DeltaTBefore500 ==
    [origin |-> 0, lead |-> 90317,
     stages |-> << <<24000, 22174>>,
                <<24000, -17985>>,
                <<24000, -59521>>,
                <<24000, 33783>>,
                <<24000, -101441>>,
                <<2400, 1058360>> >>,
     unit |-> 1, gain |-> 10]

\* lib.rs 1130-1133; leading coefficient in 1e-7, result in 1e-2 s
DeltaTBefore1600 ==
    [origin |-> 1000, lead |-> 83572,
     stages |-> << <<24000, -5051>>,
                <<24000, -85035>>,
                <<24000, 3198>>,
                <<24000, 71235>>,
                <<24000, -55601>>,
                <<2400, 157420>> >>,
     unit |-> 1, gain |-> 10]

\* lib.rs 1135-1136; leading coefficient in 1e-9, result in 1e-5 s
DeltaTBefore1700 ==
    [origin |-> 1600, lead |-> 140272,
     stages |-> << <<2400, -153200>>,
                <<2400, -98080>>,
                <<24, 12000000>> >>,
     unit |-> 100, gain |-> 1]

\* lib.rs 1138-1140; leading coefficient in 1e-11, result in 1e-6 s
DeltaTBefore1800 ==
    [origin |-> 1700, lead |-> -85179,
     stages |-> << <<2400, 133360>>,
                <<240, -592850>>,
                <<2400, 160300>>,
                <<24, 8830000>> >>,
     unit |-> 1000, gain |-> 1]

\* lib.rs 1142-1146; leading coefficient in 1e-15, result in 1e-6 s
DeltaTBefore1860 ==
    [origin |-> 1800, lead |-> 875000,
     stages |-> << <<24000, -169900>>,
                <<240, 1212720>>,
                <<2400, -374360>>,
                <<240, 411160>>,
                <<240, 68612>>,
                <<240, -332447>>,
                <<24, 13720000>> >>,
     unit |-> 1000, gain |-> 1]

\* lib.rs 1148-1151; leading coefficient in 1e-11, result in 1e-6 s
DeltaTBefore1900 ==
    [origin |-> 1860, lead |-> 428864,
     stages |-> << <<2400, -447362>>,
                <<240, 1680668>>,
                <<2400, -251754>>,
                <<24, 573700>>,
                <<24, 7620000>> >>,
     unit |-> 1000, gain |-> 1]

\* lib.rs 1153-1155; leading coefficient in 1e-10, result in 1e-6 s
DeltaTBefore1920 ==
    [origin |-> 1900, lead |-> -1970000,
     stages |-> << <<2400, 619660>>,
                <<240, -598939>>,
                <<240, 1494119>>,
                <<24, -2790000>> >>,
     unit |-> 1000, gain |-> 1]

\* lib.rs 1157-1158; leading coefficient in 1e-9, result in 1e-6 s
DeltaTBefore1941 ==
    [origin |-> 1920, lead |-> 2093600,
     stages |-> << <<2400, -761000>>,
                <<240, 844930>>,
                <<24, 21200000>> >>,
     unit |-> 1000, gain |-> 1]

\* lib.rs 1160-1161; leading coefficient in 1e-10, result in 1e-6 s
DeltaTBefore1961 ==
    [origin |-> 1950, lead |-> 3926188,
     stages |-> << <<2400, -429185>>,
                <<240, 4070000>>,
                <<240, 29070000>> >>,
     unit |-> 1000, gain |-> 1]

\* lib.rs 1163-1164; leading coefficient in 1e-9, result in 1e-6 s
DeltaTBefore1986 ==
    [origin |-> 1975, lead |-> -1392758,
     stages |-> << <<240, -384615>>,
                <<2400, 1067000>>,
                <<24, 45450000>> >>,
     unit |-> 1000, gain |-> 1]

\* lib.rs 1166-1169; leading coefficient in 1e-11, result in 1e-6 s
DeltaTBefore2005 ==
    [origin |-> 2000, lead |-> 2373599,
     stages |-> << <<2400, 651814>>,
                <<24, 1727500>>,
                <<2400, -603740>>,
                <<240, 334500>>,
                <<24, 63860000>> >>,
     unit |-> 1000, gain |-> 1]

\* lib.rs 1171-1172; leading coefficient in 1e-8, result in 1e-6 s
DeltaTBefore2050 ==
    [origin |-> 2000, lead |-> 558900,
     stages |-> << <<2400, 322170>>,
                <<24, 62920000>> >>,
     unit |-> 1000, gain |-> 1]

\* lib.rs 1175-1180; leading coefficient in 1e-3, result in 1e-3 s
DeltaTParabola ==
    [origin |-> 1820, lead |-> 32000,
     stages |-> << <<2400, 0>>,
                <<2400, -20000>> >>,
     unit |-> 1, gain |-> 1]

\* A mutant without the branch `y < 1920.0`.
delta_t_branch_without_1920(y24) ==
    IF y24 < 24 * (-500) THEN DeltaTBefore500BCE
    ELSE IF y24 < 24 * 500 THEN DeltaTBefore500
    ELSE IF y24 < 24 * 1600 THEN DeltaTBefore1600
    ELSE IF y24 < 24 * 1700 THEN DeltaTBefore1700
    ELSE IF y24 < 24 * 1800 THEN DeltaTBefore1800
    ELSE IF y24 < 24 * 1860 THEN DeltaTBefore1860
    ELSE IF y24 < 24 * 1900 THEN DeltaTBefore1900
    ELSE IF y24 < 24 * 1941 THEN DeltaTBefore1941
    ELSE IF y24 < 24 * 1961 THEN DeltaTBefore1961
    ELSE IF y24 < 24 * 1986 THEN DeltaTBefore1986
    ELSE IF y24 < 24 * 2005 THEN DeltaTBefore2005
    ELSE IF y24 < 24 * 2050 THEN DeltaTBefore2050
    ELSE DeltaTParabola

\* lib.rs 1121-1181: the polynomial of the period of y
delta_t_branch(y24) ==
    IF y24 < 24 * (-500) THEN DeltaTBefore500BCE
    ELSE IF y24 < 24 * 500 THEN DeltaTBefore500
    ELSE IF y24 < 24 * 1600 THEN DeltaTBefore1600
    ELSE IF y24 < 24 * 1700 THEN DeltaTBefore1700
    ELSE IF y24 < 24 * 1800 THEN DeltaTBefore1800
    ELSE IF y24 < 24 * 1860 THEN DeltaTBefore1860
    ELSE IF y24 < 24 * 1900 THEN DeltaTBefore1900
    ELSE IF y24 < 24 * 1920 THEN DeltaTBefore1920
    ELSE IF y24 < 24 * 1941 THEN DeltaTBefore1941
    ELSE IF y24 < 24 * 1961 THEN DeltaTBefore1961
    ELSE IF y24 < 24 * 1986 THEN DeltaTBefore1986
    ELSE IF y24 < 24 * 2005 THEN DeltaTBefore2005
    ELSE IF y24 < 24 * 2050 THEN DeltaTBefore2050
    ELSE DeltaTParabola

\* lib.rs 1176: 0.5628 * (2150.0 - y) between 2050 and 2150, in ms
extrapolation_term(y24) ==
    IF y24 >= 24 * 2050 /\ y24 < 24 * 2150
    THEN (5628 * (24 * 2150 - y24)) \div 240
    ELSE 0

delta_t_at(y24) ==
    polynomial_ms(delta_t_branch(y24), y24) - extrapolation_term(y24)

\* lib.rs 1118-1182, in milliseconds
calculate_delta_t(year, month) == delta_t_at(24 * year + 2 * month - 1)

\* the supported range of years
DeltaTFirstYear == 1500
DeltaTLastYear == 2150

DeltaTInit ==
    /\ pc = "calculate_delta_t"
    /\ args \in { [year |-> y, month |-> m] :
                      y \in DeltaTFirstYear..DeltaTLastYear, m \in 1..12 }
    /\ ret = NoReturn
    /\ ProgIdle

CalculateDeltaT ==
    /\ pc = "calculate_delta_t"
    /\ ret' = calculate_delta_t(args.year, args.month)
    /\ pc' = "delta_t_returned"
    /\ UNCHANGED <<config, progVars, args>>

DeltaTNext == CalculateDeltaT

DeltaTSpec == DeltaTInit /\ [][DeltaTNext]_vars

----------------------------------------------------------------------------
(* The sampling loops of calculate_planet_lines, one iteration at a time
   (lib.rs 2118-2167).  f64 adds the steps used here exactly. *)

\* longest polyline followed in a loop that does not advance
MaxSamplePoints == 400

\* hundredths of a degree followed below -180 in a loop that goes backwards
MaxOvershoot == 9000

\* lib.rs 2126-2143 with rising, 2149-2166 with ~rising: the pushes of the
\* iteration at longitude l
pushed_at(position, gmst, l, rising) ==
    base_horizon_chunk(position.right_ascension, position.declination, gmst,
                       l, rising)

\* Bodies within and outside the band of 10 degrees, and on the equator,
\* where the horizon is a meridian at hour angle +-90.
SamplingPositions ==
    { [planet |-> "Mars", right_ascension |-> ra, declination |-> dec] :
          ra \in {0, 20050}, dec \in {0, 500, 1500} }

SamplingSiderealTimes == {0, 10025}

\* longitude_step is an f64 of the caller: finer than 0.5, the usual
\* values, zero and negative
SamplingSteps == {-3000, 0, 25, 3000, 9000}

SamplingInit ==
    /\ pc = "calculate_planet_lines"
    /\ args \in { [position |-> p, gmst |-> g, longitude_step |-> s] :
                      p \in SamplingPositions, g \in SamplingSiderealTimes,
                      s \in SamplingSteps }
    /\ ret = NoReturn
    /\ ProgIdle

\* lib.rs 2118-2124
BeginAscLoop ==
    /\ pc = "calculate_planet_lines"
    /\ scan_step' = adaptive_step(args.position.declination,
                                  args.longitude_step)
    /\ asc_pushed' = <<>>
    /\ scan_lng' = -180 * Deg
    /\ pc' = "asc_loop"
    /\ UNCHANGED <<config, scoreVars, rankVars, countryVars, linesVars,
                   geoVars, gridVars, progressVars, args, ret, dsc_pushed>>

\* lib.rs 2125-2143: one pass of `while lng <= 180.0`
AscIteration ==
    /\ pc = "asc_loop"
    /\ scan_lng <= 180 * Deg
    /\ scan_lng + MaxOvershoot >= -180 * Deg
    /\ Len(asc_pushed) <= MaxSamplePoints \/ scan_step > 0
    /\ asc_pushed' = asc_pushed
                       \o pushed_at(args.position, args.gmst, scan_lng, TRUE)
    /\ scan_lng' = scan_lng + scan_step
    /\ UNCHANGED <<config, scoreVars, rankVars, countryVars, linesVars,
                   geoVars, gridVars, progressVars, args, ret, pc, scan_step, dsc_pushed>>

\* lib.rs 2125 false, 2146-2147
BeginDscLoop ==
    /\ pc = "asc_loop"
    /\ scan_lng > 180 * Deg
    /\ dsc_pushed' = <<>>
    /\ scan_lng' = -180 * Deg
    /\ pc' = "dsc_loop"
    /\ UNCHANGED <<config, scoreVars, rankVars, countryVars, linesVars,
                   geoVars, gridVars, progressVars, args, ret, scan_step, asc_pushed>>

\* lib.rs 2148-2166
DscIteration ==
    /\ pc = "dsc_loop"
    /\ scan_lng <= 180 * Deg
    /\ dsc_pushed' = dsc_pushed
                       \o pushed_at(args.position, args.gmst, scan_lng, FALSE)
    /\ scan_lng' = scan_lng + scan_step
    /\ UNCHANGED <<config, scoreVars, rankVars, countryVars, linesVars,
                   geoVars, gridVars, progressVars, args, ret, pc, scan_step, asc_pushed>>

\* lib.rs 2148 false, 2169-2210
ReturnPlanetLines ==
    /\ pc = "dsc_loop"
    /\ scan_lng > 180 * Deg
    /\ ret' = [asc_line |-> asc_pushed, dsc_line |-> dsc_pushed]
    /\ pc' = "planet_lines_returned"
    /\ UNCHANGED <<config, progVars, args>>

SamplingNext ==
    \/ BeginAscLoop
    \/ AscIteration
    \/ BeginDscLoop
    \/ DscIteration
    \/ ReturnPlanetLines

SamplingSpec == SamplingInit /\ [][SamplingNext]_vars

----------------------------------------------------------------------------
(* Grid generation (scout.rs 1748-1770).  Latitudes and longitudes in
   hundredths of a degree; f64 adds the resolutions used here exactly. *)

\* resolutions of the direct calls of generate_grid
GridResolutions == {10 * Deg, 20 * Deg, 45 * Deg}

GridInit ==
    /\ \/ pc = "generate_coarse_grid" /\ args = NoArgs
       \/ /\ pc = "generate_grid"
          /\ args \in { [resolution_deg |-> r] : r \in GridResolutions }
    /\ ret = NoReturn
    /\ config = balanced
    /\ ScoreIdle
    /\ RankIdle
    /\ CountryIdle
    /\ LinesIdle
    /\ GeoIdle
    /\ SamplingIdle
    /\ GridIdle
    /\ ProgressIdle

\* scout.rs 1768-1770: generate_grid(5.0)
GenerateCoarseGrid ==
    /\ pc = "generate_coarse_grid"
    /\ args' = [resolution_deg |-> 5 * Deg]
    /\ pc' = "generate_grid"
    /\ UNCHANGED <<config, progVars, ret>>

\* scout.rs 1749-1752
BeginGrid ==
    /\ pc = "generate_grid"
    /\ grid_points' = <<>>
    /\ grid_lat' = -60 * Deg
    /\ pc' = "lat_loop"
    /\ UNCHANGED <<config, scoreVars, rankVars, countryVars, linesVars,
                   geoVars, samplingVars, progressVars, args, ret, grid_lon>>

\* scout.rs 1753-1755: `while lat <= 70.0 { let mut lon = -180.0;`
BeginRow ==
    /\ pc = "lat_loop"
    /\ grid_lat <= 70 * Deg
    /\ grid_lon' = -180 * Deg
    /\ pc' = "lon_loop"
    /\ UNCHANGED <<config, scoreVars, rankVars, countryVars, linesVars,
                   geoVars, samplingVars, progressVars, args, ret, grid_lat,
                   grid_points>>

\* scout.rs 1756-1759: one pass of `while lon < 180.0`
PushGridPoint ==
    /\ pc = "lon_loop"
    /\ grid_lon < 180 * Deg
    /\ grid_points' = Append(grid_points, <<grid_lat, grid_lon>>)
    /\ grid_lon' = grid_lon + args.resolution_deg
    /\ UNCHANGED <<config, scoreVars, rankVars, countryVars, linesVars,
                   geoVars, samplingVars, progressVars, args, ret, pc,
                   grid_lat>>

\* scout.rs 1756 false, 1760
EndRow ==
    /\ pc = "lon_loop"
    /\ grid_lon >= 180 * Deg
    /\ grid_lat' = grid_lat + args.resolution_deg
    /\ pc' = "lat_loop"
    /\ UNCHANGED <<config, scoreVars, rankVars, countryVars, linesVars,
                   geoVars, samplingVars, progressVars, args, ret, grid_lon,
                   grid_points>>

\* scout.rs 1753 false, 1763
ReturnGrid ==
    /\ pc = "lat_loop"
    /\ grid_lat > 70 * Deg
    /\ ret' = grid_points
    /\ pc' = "grid_returned"
    /\ UNCHANGED <<config, progVars, args>>

GridNext ==
    \/ GenerateCoarseGrid
    \/ BeginGrid
    \/ BeginRow
    \/ PushGridPoint
    \/ EndRow
    \/ ReturnGrid

GridSpec == GridInit /\ [][GridNext]_vars

----------------------------------------------------------------------------
(* identify_hot_zones (scout.rs 1900-1926).  Scores in whole points, the
   percentile in hundredths. *)

\* longest list of grid results handed to identify_hot_zones
MaxGridPoints == 4

\* scout.rs 1907-1910: the scores of the points with an influence
influenced_scores(coarse_results) ==
    LET kept == SelectSeq(coarse_results, LAMBDA p : p.influence_count > 0)
    IN  [i \in 1..Len(kept) |-> kept[i].score]

\* scout.rs 1918: ((scores.len() as f64) * threshold_percentile).ceil()
threshold_idx(len, threshold_percentile) ==
    (len * threshold_percentile + 99) \div 100

\* scout.rs 1916-1919: the score at threshold_idx.min(len - 1) of the
\* scores sorted descending, indexed from 0
threshold_score_of(scores, threshold_percentile) ==
    sort_by_desc(scores, scores)[
        Min(threshold_idx(Len(scores), threshold_percentile),
            Len(scores) - 1) + 1]

\* scout.rs 1922-1925
zones_at_or_above(coarse_results, threshold_score) ==
    LET hot == SelectSeq(coarse_results,
                   LAMBDA p : p.score >= threshold_score
                                  /\ p.influence_count > 0)
    IN  [i \in 1..Len(hot) |-> <<hot[i].lat, hot[i].lon, 5>>]

\* scout.rs 1900-1926
identify_hot_zones(coarse_results, threshold_percentile) ==
    IF coarse_results = <<>> THEN <<>>
    ELSE IF influenced_scores(coarse_results) = <<>> THEN <<>>
    ELSE zones_at_or_above(
             coarse_results,
             threshold_score_of(influenced_scores(coarse_results),
                                threshold_percentile))

\* GridPoint lists: the point at position i is at latitude i
GridScores == {40, 55, 70}

GridResultLists ==
    UNION { { [i \in 1..n |->
                 [lat |-> i, lon |-> 0, score |-> f[i][1],
                  influence_count |-> f[i][2]]] :
              f \in [1..n -> GridScores \X {0, 1}] } : n \in 0..MaxGridPoints }

\* scout.rs 2012 and 2026: 0.2 for the coarse and 0.1 for the regional grid
ThresholdPercentiles == {20, 10}

HotZoneInit ==
    /\ pc = "identify_hot_zones"
    /\ args \in { [coarse_results |-> r, threshold_percentile |-> p] :
                      r \in GridResultLists, p \in ThresholdPercentiles }
    /\ ret = NoReturn
    /\ ProgIdle

IdentifyHotZones ==
    /\ pc = "identify_hot_zones"
    /\ ret' = identify_hot_zones(args.coarse_results,
                                 args.threshold_percentile)
    /\ pc' = "hot_zones_returned"
    /\ UNCHANGED <<config, progVars, args>>

HotZoneNext == IdentifyHotZones

HotZoneSpec == HotZoneInit /\ [][HotZoneNext]_vars

----------------------------------------------------------------------------
(* scout_cities_for_category_with_progress (scout.rs 1262-1370).  A call of
   the callback is recorded as [percent, phase]; i as u32 * 70 stays below
   2^32 for fewer than 61 356 676 cities. *)

\* longest city list handed to the entry point with progress
MaxProgressCities == 41

\* scout.rs 1288-1295: `let _ = progress_callback.call3(..)`; the Result
\* of the call is dropped and the function goes on to `next`
after_report(threw, next) == next

\* scout.rs 1285
progress_interval(total_cities) == Max(total_cities \div 20, 1)

\* The report with city_percent in the place of percent.
computing_reports_with_city_percent(i, total_cities) ==
    IF i > 0 /\ i % progress_interval(total_cities) = 0
    THEN << [percent |-> (i * 100) \div total_cities,
             phase |-> "computing"] >>
    ELSE <<>>

\* scout.rs 1342-1350: the report after the city of index i, if any
computing_reports(i, total_cities) ==
    IF i > 0 /\ i % progress_interval(total_cities) = 0
    THEN << [percent |-> Min(10 + (i * 70) \div total_cities, 80),
             phase |-> "computing"] >>
    ELSE <<>>

\* CityData lists of every length: cities in range of all the lines and of
\* one line in turn
ProgressCityLists ==
    { [i \in 1..n |->
          [name |-> i, country |-> "X",
           geometry |-> IF i % 2 = 0
                        THEN [distance |-> <<0, 180, 0>>,
                              in_bbox |-> <<TRUE, TRUE, TRUE>>]
                        ELSE [distance |-> <<700, 0, 700>>,
                              in_bbox |-> <<FALSE, TRUE, TRUE>>]]] :
      n \in 0..MaxProgressCities }

ProgressInit ==
    /\ pc = "scout_cities_for_category_with_progress"
    /\ config = balanced
    /\ cities \in ProgressCityLists
    /\ category \in {"Career"}
    /\ sort_mode \in SortMode
    /\ city_influence_sets = <<>>
    /\ seq_rankings = <<>>
    /\ par_slots = <<>>
    /\ par_finished = <<>>
    /\ par_rankings = <<>>
    /\ progress_calls = <<>>
    /\ callback_threw = FALSE
    /\ args = NoArgs
    /\ ret = NoReturn
    /\ ScoreIdle
    /\ CountryIdle
    /\ LinesIdle
    /\ GeoIdle
    /\ SamplingIdle
    /\ GridIdle

\* scout.rs 1275-1297: parse, then report_progress(5, "initializing", ..)
ReportPreparing(threw) ==
    /\ pc = "scout_cities_for_category_with_progress"
    /\ progress_calls' = Append(progress_calls,
                                [percent |-> 5, phase |-> "initializing"])
    /\ callback_threw' = (callback_threw \/ threw)
    /\ pc' = after_report(threw, "optimized_lines")
    /\ UNCHANGED <<config, scoreVars, rankVars, countryVars, linesVars,
                   geoVars, samplingVars, gridVars, args, ret>>

\* scout.rs 1299-1306: the bounding boxes, then report_progress(8, ..)
ReportIndexReady(threw) ==
    /\ pc = "optimized_lines"
    /\ progress_calls' = Append(progress_calls,
                                [percent |-> 8, phase |-> "initializing"])
    /\ callback_threw' = (callback_threw \/ threw)
    /\ pc' = after_report(threw, "cities_loop")
    /\ UNCHANGED <<config, scoreVars, rankVars, countryVars, linesVars,
                   geoVars, samplingVars, gridVars, args, ret>>

\* scout.rs 1313-1351: one pass of `for (i, city) in
\* cities.iter().enumerate()`, i = Len(city_influence_sets)
MapCityWithProgress(threw) ==
    /\ pc = "cities_loop"
    /\ Len(city_influence_sets) < Len(cities)
    /\ city_influence_sets' =
           Append(city_influence_sets,
                  city_influence_set(cities[Len(city_influence_sets) + 1],
                                     config))
    /\ progress_calls' =
           progress_calls \o computing_reports(Len(city_influence_sets),
                                               Len(cities))
    /\ IF progress_calls' = progress_calls
       THEN ~threw /\ UNCHANGED <<pc, callback_threw>>
       ELSE /\ callback_threw' = (callback_threw \/ threw)
            /\ pc' = after_report(threw, "cities_loop")
    /\ UNCHANGED <<config, scoreVars, countryVars, linesVars, geoVars,
                   samplingVars, gridVars, args, ret,
                   cities, category, sort_mode,
                   seq_rankings, par_slots, par_finished, par_rankings>>

\* scout.rs 1353-1357: report_progress(85, "aggregating", ..)
ReportRanking(threw) ==
    /\ pc = "cities_loop"
    /\ Len(city_influence_sets) = Len(cities)
    /\ progress_calls' = Append(progress_calls,
                                [percent |-> 85, phase |-> "aggregating"])
    /\ callback_threw' = (callback_threw \/ threw)
    /\ pc' = after_report(threw, "rank_cities_by_category")
    /\ UNCHANGED <<config, scoreVars, rankVars, countryVars, linesVars,
                   geoVars, samplingVars, gridVars, args, ret>>

\* scout.rs 1359-1364: rank, report_progress(95, ..), return the rankings
RankAndReportFinalizing(threw) ==
    /\ pc = "rank_cities_by_category"
    /\ seq_rankings' = rank_cities_by_category(city_influence_sets, category,
                                               config, sort_mode)
    /\ progress_calls' = Append(progress_calls,
                                [percent |-> 95, phase |-> "aggregating"])
    /\ callback_threw' = (callback_threw \/ threw)
    /\ pc' = after_report(threw, "progress_returned")
    /\ UNCHANGED <<config, scoreVars, countryVars, linesVars, geoVars,
                   samplingVars, gridVars, args, ret,
                   cities, category, sort_mode,
                   city_influence_sets, par_slots, par_finished,
                   par_rankings>>

ProgressNext ==
    \E threw \in BOOLEAN :
        \/ ReportPreparing(threw)
        \/ ReportIndexReady(threw)
        \/ MapCityWithProgress(threw)
        \/ ReportRanking(threw)
        \/ RankAndReportFinalizing(threw)

ProgressSpec == ProgressInit /\ [][ProgressNext]_vars

----------------------------------------------------------------------------
(* get_line_nature called on its own (scout.rs 831-975) *)

\* the bodies and angles that name a line
LinePlanets ==
    {"Sun", "Moon", "Mercury", "Venus", "Mars", "Jupiter", "Saturn",
     "Uranus", "Neptune", "Pluto", "Chiron", "NorthNode"}

LineAngles == {"MC", "IC", "ASC", "DSC"}

NatureInit ==
    /\ pc = "get_line_nature"
    /\ args \in { [planet |-> p, angle |-> a, category |-> c] :
                      p \in LinePlanets, a \in LineAngles,
                      c \in LifeCategory }
    /\ ret = NoReturn
    /\ ProgIdle

\* get_line_nature with the answers of the two predicates it consults
GetLineNature ==
    /\ pc = "get_line_nature"
    /\ ret' = [nature |-> get_line_nature(args.planet, args.angle,
                                          args.category),
               beneficial |-> is_beneficial_for_category(
                                  args.planet, args.angle, args.category),
               challenging |-> is_challenging_for_category(
                                   args.planet, args.angle, args.category)]
    /\ pc' = "nature_returned"
    /\ UNCHANGED <<config, progVars, args>>

NatureNext == GetLineNature

NatureSpec == NatureInit /\ [][NatureNext]_vars

----------------------------------------------------------------------------
(* Properties of calculate_city_score (ScoreSpec) *)

ScoreRange == 0..(100 * ScoreScale)

\* C1: for every influence list (also longer than 7) with ratings in 1..5,
\* distances >= 0 and any aspect, benefit_score, intensity_score and
\* volatility_score are in [0, 100], and the values before the final clamp
\* already lie in [0, 100]: the clamp changes nothing.
ScoreBoundsWithoutClamp ==
    pc = "scored" =>
        /\ score.benefit_score \in ScoreRange
        /\ score.intensity_score \in ScoreRange
        /\ score.volatility_score \in ScoreRange
        /\ influences # <<>> =>
              /\ benefit_unclamped(influences, config) = score.benefit_score
              /\ intensity_unclamped(influences, config)
                     = score.intensity_score
              /\ volatility_unclamped(influences, config)
                     = score.volatility_score

\* more than seven maximally beneficial influences at distance 0 were scored
ScoreBoundsWitness ==
    /\ pc = "scored"
    /\ Len(influences) > Len(DIMINISHING_WEIGHTS)
    /\ \A i \in 1..Len(influences) :
          /\ influences[i].rating = 5
          /\ influences[i].aspect = NoAspect
          /\ influences[i].distance_km = 0
    /\ score.benefit_score > 99 * ScoreScale

ScoredFields(sc) ==
    <<sc.benefit_score, sc.intensity_score, sc.volatility_score,
      sc.mixed_flag>>

\* the eighth influence ranks strictly below the seventh of the first seven
EighthIsSmaller ==
    /\ Len(influences) = Len(DIMINISHING_WEIGHTS) + 1
    /\ Abs(calculate_influence_contribution(Last(influences), config).benefit)
          < Abs(ranked_contributions(Front(influences), config)
                    [Len(DIMINISHING_WEIGHTS)].benefit)

\* C2: only the first 7 contributions by |benefit| count: adding to a city
\* with 7 influences one more whose |benefit| is strictly smaller than the
\* 7th-ranked one changes none of benefit_score, intensity_score,
\* volatility_score and mixed_flag.
TopSevenOnly ==
    (pc = "scored" /\ EighthIsSmaller) =>
        ScoredFields(score)
            = ScoredFields(calculate_city_score(Front(influences), config))

\* an eighth, weaker influence was scored after seven that do not all cancel
TopSevenWitness ==
    /\ pc = "scored"
    /\ EighthIsSmaller
    /\ Abs(calculate_influence_contribution(Last(influences), config).benefit)
          > 0
    /\ score.benefit_score # 50 * ScoreScale

\* the sum over the top 7 of weight * |benefit|, in 1/10000
WeightedMagnitude(infl, cfg) ==
    LET c == ranked_contributions(infl, cfg)
    IN  SumSeq([i \in 1..Min(7, Len(c)) |->
                   Abs(c[i].benefit) * DIMINISHING_WEIGHTS[i]])

\* the signed sum over the top 7 of weight * benefit, in 1/10000
WeightedSigned(infl, cfg) ==
    LET c == ranked_contributions(infl, cfg)
    IN  SumSeq([i \in 1..Min(7, Len(c)) |->
                   c[i].benefit * DIMINISHING_WEIGHTS[i]])

\* twice the weighted positive sum P, in 1/10000
TwiceP(infl, cfg) == WeightedMagnitude(infl, cfg) + WeightedSigned(infl, cfg)

\* twice the weighted negative sum N, in 1/10000
TwiceN(infl, cfg) == WeightedMagnitude(infl, cfg) - WeightedSigned(infl, cfg)

\* C3: mixed_flag is true if and only if the weighted positive sum P and the
\* weighted negative sum N of the top-7 benefits are both strictly greater
\* than 0.5; with no influences it is false.
MixedIffBothSidesExceedHalf ==
    pc = "scored" =>
        /\ score.mixed_flag <=> (/\ TwiceP(influences, config) > 10000
                                 /\ TwiceN(influences, config) > 10000)
        /\ influences = <<>> => ~score.mixed_flag

\* a city scored as mixed, and the state reached from one that is not
MixedWitness ==
    /\ pc = "scored"
    /\ score.mixed_flag
    /\ TwiceP(Front(influences), config) > 10000
    /\ TwiceN(Front(influences), config) <= 10000

----------------------------------------------------------------------------
(* Properties of the city ranking (RankSpec) *)

\* C4: for the same cities, lines, category, sort mode and config the
\* parallel scout returns the same ranking as the sequential one (same
\* cities, same order, equal scores), whatever the order in which the
\* workers process the cities and finish.
ParallelEqualsSequential ==
    pc = "done" => par_rankings = seq_rankings

\* the workers finished out of input order and two ranked cities tie
ParallelWitness ==
    /\ pc = "done"
    /\ Len(par_finished) >= 2
    /\ par_finished[1] # 1
    /\ \E i, j \in 1..Len(seq_rankings) :
          /\ i < j
          /\ sort_key(seq_rankings[i], sort_mode, config)
                 = sort_key(seq_rankings[j], sort_mode, config)

\* the (planet, angle) pair is in the beneficial or the challenging list
Listed(inf, cat) ==
    <<inf.planet, inf.angle>> \in BeneficialPairs(cat) \cup ChallengingPairs(cat)

\* the ranking entries of the city named n
EntriesOf(rankings, n) ==
    { k \in 1..Len(rankings) : rankings[k].city_name = n }

\* C6: each city is scored on the influences whose (planet, angle) is in the
\* category's beneficial or challenging list only: an influence outside both
\* lists changes no score, and a city with no listed influence is absent
\* from the ranking.
OnlyListedInfluencesCount ==
    pc \in {"parallel", "done"} =>
        \A i \in 1..Len(cities) :
            LET listed == SelectSeq(city_influence_sets[i].influences,
                                    LAMBDA inf : Listed(inf, category))
                sc     == calculate_city_score(listed, config)
                found  == EntriesOf(seq_rankings, i)
            IN  IF listed = <<>> THEN found = {}
                ELSE /\ Cardinality(found) = 1
                     /\ \A k \in found :
                           ScoredFields(seq_rankings[k]) = ScoredFields(sc)

\* one ranked city has a listed and an unlisted influence, one city with
\* unlisted influences only is absent
OnlyListedWitness ==
    /\ pc = "done"
    /\ \E i \in 1..Len(cities) :
          /\ EntriesOf(seq_rankings, i) # {}
          /\ \E a, b \in 1..Len(city_influence_sets[i].influences) :
                /\ Listed(city_influence_sets[i].influences[a], category)
                /\ ~Listed(city_influence_sets[i].influences[b], category)
    /\ \E i \in 1..Len(cities) :
          /\ EntriesOf(seq_rankings, i) = {}
          /\ city_influence_sets[i].influences # <<>>

\* the sort key the three modes are specified to use, in 1/200000
ClaimedKey(r) ==
    IF sort_mode = "BenefitFirst" THEN 10 * r.benefit_score
    ELSE IF sort_mode = "IntensityFirst" THEN 10 * r.intensity_score
    ELSE 10 * r.benefit_score - r.volatility_score * config.volatility_penalty

\* C7: the ranking is in non-increasing order of the sort key (benefit_score,
\* intensity_score, or benefit_score - volatility_score * volatility_penalty)
\* and cities with equal keys keep the relative order of the input list.
RankingSortedAndStable ==
    pc \in {"parallel", "done"} =>
        \A i, j \in 1..Len(seq_rankings) :
            i < j =>
                /\ ClaimedKey(seq_rankings[i]) >= ClaimedKey(seq_rankings[j])
                /\ ClaimedKey(seq_rankings[i]) = ClaimedKey(seq_rankings[j])
                      => seq_rankings[i].city_name < seq_rankings[j].city_name

\* a balanced ranking of three cities with a tie, a strict drop and a
\* volatility penalty that changes a key
RankingSortedWitness ==
    /\ pc = "done"
    /\ sort_mode = "BalancedBenefit"
    /\ Len(seq_rankings) = 3
    /\ \E i \in 1..2 :
          ClaimedKey(seq_rankings[i]) = ClaimedKey(seq_rankings[i + 1])
    /\ \E i \in 1..2 :
          ClaimedKey(seq_rankings[i]) > ClaimedKey(seq_rankings[i + 1])
    /\ \E i \in 1..3 : seq_rankings[i].volatility_score > 0

----------------------------------------------------------------------------
(* Properties of group_and_rank_countries (CountrySpec) *)

\* the positions <<group, index>> at which the input ranking r is returned
PlacesOf(r) ==
    { p \in { <<g, k>> : g \in 1..Len(ranked_countries), k \in 1..MaxRankings + 1 } :
        /\ p[2] <= Len(ranked_countries[p[1]].cities)
        /\ ranked_countries[p[1]].cities[p[2]] = r }

\* C8: every input city ranking is in exactly one country group, the group
\* of its country, with one group per distinct country; the cities of a
\* group are sorted by benefit_score descending and the groups are ordered by
\* the benefit_score of their top city, descending.
CountriesGroupedAndOrdered ==
    pc = "grouped" =>
        /\ \A i \in 1..Len(city_rankings) :
              /\ Cardinality(PlacesOf(city_rankings[i])) = 1
              /\ \A p \in PlacesOf(city_rankings[i]) :
                    ranked_countries[p[1]].country = city_rankings[i].country
        /\ \A g, h \in 1..Len(ranked_countries) :
              g # h => ranked_countries[g].country # ranked_countries[h].country
        /\ \A g \in 1..Len(ranked_countries) :
              LET cs == ranked_countries[g].cities
              IN  /\ cs # <<>>
                  /\ \A k \in 1..Len(cs) : cs[k] \in SeqToSet(city_rankings)
                  /\ \A k \in 1..Len(cs) - 1 :
                        cs[k].benefit_score >= cs[k + 1].benefit_score
        /\ \A g \in 1..Len(ranked_countries) - 1 :
              ranked_countries[g].cities[1].benefit_score
                  >= ranked_countries[g + 1].cities[1].benefit_score

\* two countries were returned, the first with two cities given in ascending
\* order of score, the second given first in the input
CountriesGroupedWitness ==
    /\ pc = "grouped"
    /\ Len(city_rankings) = 3
    /\ Len(ranked_countries) = 2
    /\ Len(ranked_countries[1].cities) = 2
    /\ ranked_countries[1].cities[1].city_name = 3
    /\ ranked_countries[1].cities[2].city_name = 2
    /\ ranked_countries[1].cities[1].benefit_score
           > ranked_countries[1].cities[2].benefit_score
    /\ ranked_countries[2].cities[1].city_name = 1

----------------------------------------------------------------------------
(* Properties of calculate_all_lines (LinesSpec) *)

AngleOrder == <<"MC", "IC", "ASC", "DSC">>

\* C5: planetary_positions and zenith_points come in the fixed body order
\* Sun .. NorthNode and planetary_lines holds exactly four entries per body
\* in the order MC, IC, ASC, DSC (48 lines, ASC and DSC present even when their
\* polyline is empty), with and without the parallel feature and whatever
\* order the per-body workers finish in.
LinesInFixedOrder ==
    pc = "flattened" =>
        /\ Len(result.planetary_positions) = 12
        /\ Len(result.zenith_points) = 12
        /\ Len(result.planetary_lines) = 48
        /\ \A i \in 1..12 :
              /\ result.planetary_positions[i].planet = planets[i]
              /\ result.zenith_points[i].planet = planets[i]
              /\ \A k \in 1..4 :
                    /\ result.planetary_lines[4 * (i - 1) + k].planet
                           = planets[i]
                    /\ result.planetary_lines[4 * (i - 1) + k].line_type
                           = AngleOrder[k]

\* a parallel run was flattened in which a body has empty ASC/DSC polylines
LinesInFixedOrderWitness ==
    /\ pc = "flattened"
    /\ parallel_feature
    /\ equatorial # {}
    /\ \E k \in 1..Len(result.planetary_lines) :
          result.planetary_lines[k].points = 0

----------------------------------------------------------------------------
(* Properties of the geodetic scout (GeoSpec) *)

\* C9: might_contain returns false only for a city that is out of range of
\* the line (also near the +/-180 meridian and at high latitudes), so
\* scout_cities_for_category, which pre-filters with it, collects for the
\* city the same influences as scout_city, which does not.
PrefilterKeepsEveryInfluence ==
    pc \in {"geo_scout_fast", "geo_done"} =>
        bbox_influences = plain_influences

\* C10: the fast path drops no influence: fast_distance_to_polyline returns
\* Some(d), and scout_cities_fast collects the line, whenever
\* distance_to_polyline from the city to the simplified line's points is
\* within the threshold, also for a meridian reduced to its two endpoints.
FastPathDropsNoInfluence ==
    pc = "geo_done" =>
        \A j \in 1..Len(geo_lines) :
            LET line == simplified_line(geo_lines[j], config.max_distance_km,
                                        FastSimplifyTolerance)
            IN  distance_to_polyline(geo_city[1], geo_city[2], line.points)
                        <= config.max_distance_km
                    => \E k \in 1..Len(fast_influences) :
                          /\ fast_influences[k].planet = line.planet
                          /\ fast_influences[k].angle = line.angle

----------------------------------------------------------------------------
(* Properties of simplify_polyline (SimplifySpec) *)

\* C11: simplify_polyline returns a polyline no longer than its input, whose
\* first and last points are the input's first and last points; an input of
\* 0, 1 or 2 points is returned unchanged.
SimplifyKeepsEndpoints ==
    pc = "returned" =>
        /\ Len(ret) <= Len(args.points)
        /\ Len(args.points) <= 2 => ret = args.points
        /\ args.points # <<>> =>
              /\ ret # <<>>
              /\ ret[1] = args.points[1]
              /\ ret[Len(ret)] = args.points[Len(args.points)]

\* a four-point polyline was split at an interior point and lost another
SimplifyKeepsEndpointsWitness ==
    /\ pc = "returned"
    /\ Len(args.points) = 4
    /\ Len(ret) = 3
    /\ ret[2] \in {args.points[2], args.points[3]}

----------------------------------------------------------------------------
(* Properties of to_julian_date and jd_to_calendar (CalendarSpec) *)

\* C12: for every valid Gregorian date (y, m, d) with y in 1600..2200,
\* jd_to_calendar(to_julian_date(y, m, d, 12, 0, 0)) returns (y, m, d).
CalendarRoundTrip ==
    pc = "calendar_returned" =>
        ret.calendar = <<args.year, args.month, args.day>>

\* A leap day of a century year has been converted both ways; its Julian
\* Date is 2451604.0.
CalendarRoundTripWitness ==
    /\ pc = "calendar_returned"
    /\ args.year = 2000 /\ args.month = 2 /\ args.day = 29
    /\ ret.jd = [day |-> 2451604, second |-> 43200]
    /\ ret.calendar = <<2000, 2, 29>>

----------------------------------------------------------------------------
(* Properties of calculate_mc_longitude and calculate_ic_longitude
   (MeridianSpec) *)

\* C14: for every right ascension and GMST the MC and IC longitudes are 180
\* degrees apart modulo 360, within 1 degree.
McIcOpposite ==
    pc = "meridians_returned" =>
        Abs(((ret.mc - ret.ic) % (360 * Deg)) - 180 * Deg) <= Deg

\* Both longitudes have been computed for a body whose upper meridian is
\* folded to the west and whose lower meridian is not.
McIcOppositeWitness ==
    /\ pc = "meridians_returned"
    /\ ret.mc < 0
    /\ ret.ic > 0
    /\ ret.mc = ret.ic - 180 * Deg

----------------------------------------------------------------------------
(* Properties of calculate_horizon_latitude and is_all_latitudes_horizon
   (HorizonSpec) *)

\* C15: for the same arguments, when is_all_latitudes_horizon returns true
\* calculate_horizon_latitude returns None; when |sin(declination)| < EPS
\* and is_all_latitudes_horizon returns false it returns None as well; and a
\* returned Some(lat) has lat in [-90, 90].
HorizonLatitudeAgreesWithDegeneracy ==
    pc = "horizon_returned" =>
        /\ ret.all_latitudes => ret.latitude = NoLatitude
        /\ (Abs(Sin(args.declination)) < EPS /\ ~ret.all_latitudes)
               => ret.latitude = NoLatitude
        /\ ret.latitude # NoLatitude
               => /\ ret.latitude[1] >= -90 * Deg
                  /\ ret.latitude[1] <= 90 * Deg

\* An equatorial body off the east and west points has no horizon latitude
\* although not every latitude is on its horizon.
HorizonNoIntersectionWitness ==
    /\ pc = "horizon_returned"
    /\ args.declination = 0
    /\ ~ret.all_latitudes
    /\ ret.latitude = NoLatitude

----------------------------------------------------------------------------
(* Properties of the emitted points and lines (PlanetLinesSpec) *)

\* C13: every point of every emitted line, base or aspect, has its
\* longitude in (-180, 180]; -180 never appears.
LongitudesHalfOpen ==
    /\ pc \in {"calculate_planet_aspect_lines", "lines_returned"} =>
           \A i \in 1..Len(ret.lines) :
               \A k \in 1..Len(ret.lines[i].points) :
                   /\ ret.lines[i].points[k][2] > -180 * Deg
                   /\ ret.lines[i].points[k][2] <= 180 * Deg
    /\ pc = "lines_returned" =>
           \A i \in 1..Len(ret.aspect_lines) :
               \A k \in 1..Len(ret.aspect_lines[i].points) :
                   /\ ret.aspect_lines[i].points[k][2] > -180 * Deg
                   /\ ret.aspect_lines[i].points[k][2] <= 180 * Deg

\* C16: calculate_planet_aspect_lines returns exactly twenty-four aspect
\* lines: 3 aspects x 2 directions x 4 angles.
TwentyFourAspectLines ==
    pc = "lines_returned" => Len(ret.aspect_lines) = 24

----------------------------------------------------------------------------
(* Properties of calculate_paran (ParanSpec) *)

\* C17: for two meridian angles calculate_paran returns exactly one paran,
\* at latitude 0 and at the first body's meridian longitude, when the
\* shortest arc between the two signed meridian longitudes is below 2
\* degrees, and no paran otherwise.
MeridianParanWithinTwoDegrees ==
    (pc = "paran_returned" /\ args.angle1 \in {"MC", "IC"}
                           /\ args.angle2 \in {"MC", "IC"}) =>
        LET lng1 == meridian_longitude(args.pos1, args.angle1, args.gmst)
            lng2 == meridian_longitude(args.pos2, args.angle2, args.gmst)
            arc == Min((lng1 - lng2) % (360 * Deg),
                       (lng2 - lng1) % (360 * Deg))
        IN  IF arc < 2 * Deg
            THEN /\ Len(ret) = 1
                 /\ ret[1].latitude = 0
                 /\ ret[1].longitude = Some(lng1)
            ELSE ret = <<>>

\* Two different bodies whose meridians lie one degree apart on the two
\* sides of the +/-180 meridian give a paran on the first one's meridian.
MeridianParanWitness ==
    /\ pc = "paran_returned"
    /\ args.angle1 = "MC" /\ args.angle2 = "MC"
    /\ args.pos1.planet = "Sun" /\ args.pos2.planet = "Moon"
    /\ args.gmst = 0
    /\ Len(ret) = 1
    /\ ret[1].latitude = 0
    /\ ret[1].longitude = Some(17950)

\* C18: with at least one horizon angle calculate_paran returns at most one
\* paran; a returned paran lies at a scanned latitude of [-66, 66] (step
\* 0.25) where the shortest-arc discrepancy of the two longitudes is below
\* 1 degree and no scanned latitude has a strictly smaller one; without a
\* scanned latitude of discrepancy below 1 degree nothing is returned.
ScannedParanIsBestCrossing ==
    (pc = "paran_returned" /\ ~(args.angle1 \in {"MC", "IC"}
                                /\ args.angle2 \in {"MC", "IC"})) =>
        LET lng1(k) == get_longitude_for_angle_at_latitude(
                           args.pos1.right_ascension, args.pos1.declination,
                           args.gmst, ScanLatitudes[k], args.angle1)
            lng2(k) == get_longitude_for_angle_at_latitude(
                           args.pos2.right_ascension, args.pos2.declination,
                           args.gmst, ScanLatitudes[k], args.angle2)
            arc(a, b) == Min((a - b) % (360 * Deg), (b - a) % (360 * Deg))
            discrepancy ==
                [k \in 1..Len(ScanLatitudes) |->
                    IF lng1(k) = NoLongitude \/ lng2(k) = NoLongitude
                    THEN 360 * Deg
                    ELSE arc(lng1(k)[1], lng2(k)[1])]
            close == { k \in 1..Len(ScanLatitudes) : discrepancy[k] < Deg }
        IN  /\ Len(ret) <= 1
            /\ Len(ret) = 1 =>
                   \E k \in close :
                       /\ ret[1].latitude = ScanLatitudes[k]
                       /\ \A j \in close : discrepancy[j] >= discrepancy[k]
            /\ close = {} => ret = <<>>

\* A meridian and a horizon line cross: the paran lies on the meridian at a
\* latitude inside the scan, which is not the first latitude of the scan
\* that comes within 1 degree.
ScannedParanWitness ==
    /\ pc = "paran_returned"
    /\ args.angle1 = "MC" /\ args.angle2 \in {"ASC", "DSC"}
    /\ Len(ret) = 1
    /\ ret[1].latitude > -66 * Deg
    /\ ret[1].latitude < 66 * Deg
    /\ ret[1].longitude
           = Some(meridian_longitude(args.pos1, args.angle1, args.gmst))

----------------------------------------------------------------------------
(* Properties of local_to_utc_julian_date and calculate_all_lines_local
   (LocalSpec) *)

\* C19: for a civil tuple that is not a valid date-time (month 13, 30
\* February, hour 24) local_to_utc_julian_date and
\* calculate_all_lines_local stop with an invalid-input error and return no
\* Julian Date and no lines.
InvalidTupleIsRejected ==
    (/\ pc \in {"calculate_all_lines_local", "local_returned"}
     /\ ~naive_datetime_opt(args.civil.year, args.civil.month, args.civil.day,
                            args.civil.hour, args.civil.minute,
                            args.civil.second)) =>
        /\ ret.julian_date = InvalidInput
        /\ pc = "local_returned" => ret.planetary_lines = <<>>

----------------------------------------------------------------------------
(* Properties of calculate_delta_t (DeltaTSpec) *)

\* C20: calculate_delta_t(year, month) is >= 0 seconds for every year in
\* [1500, 2150] and every month in 1..12.
DeltaTNonNegative ==
    pc = "delta_t_returned" => ret >= 0

\* C20, amended: for every year in [1500, 2150] and every month,
\* calculate_delta_t is negative exactly from January 1871 to December
\* 1901, where it stays above -6.4 seconds, and is >= 0 in all other months.
DeltaTNegativeOnlyAround1900 ==
    pc = "delta_t_returned" =>
        /\ ret < 0 <=> (args.year >= 1871 /\ args.year <= 1901)
        /\ ret > -6400

\* January 1893, the lowest value: about -6.33 s.
DeltaTNegativeWitness ==
    /\ pc = "delta_t_returned"
    /\ args.year = 1893 /\ args.month = 1
    /\ ret < -6300

----------------------------------------------------------------------------
(* Properties of the sampling loops of calculate_planet_lines
   (SamplingSpec) *)

\* C21: the step the ASC and DSC loops sample with is never coarser than
\* the longitude_step of the caller (stated for the positive steps, with
\* which the loops advance).
StepNeverCoarser ==
    /\ pc \in {"asc_loop", "dsc_loop", "planet_lines_returned"}
    /\ args.longitude_step > 0
    => scan_step <= args.longitude_step


\* the points of a polyline at longitude l, in the order of the polyline
points_at(points, l) == SelectSeq(points, LAMBDA p : p[2] = l)

\* what the returned lines hold at the sampled longitude l
emitted_as_claimed(position, gmst, l) ==
    IF is_all_latitudes_horizon(position.right_ascension,
                                position.declination, gmst, l)
    THEN IF is_rising(position.right_ascension, gmst, l)
         THEN /\ points_at(ret.asc_line, l) = meridian_points(l)
              /\ points_at(ret.dsc_line, l) = <<>>
         ELSE /\ points_at(ret.asc_line, l) = <<>>
              /\ points_at(ret.dsc_line, l) = meridian_points(l)
    ELSE calculate_horizon_latitude(position.right_ascension,
                                    position.declination, gmst, l)
             = NoLatitude
         => /\ points_at(ret.asc_line, l) = <<>>
            /\ points_at(ret.dsc_line, l) = <<>>

\* C22: in the returned lines, a sampled longitude at which every latitude
\* is on the horizon carries the full vertical segment (90 points, -89 to
\* +89) on exactly one line, ASC if rising and DSC otherwise; a sampled
\* longitude without a horizon latitude carries no point on either line.
VerticalSegmentOnOneLineAndGapsKept ==
    pc = "planet_lines_returned"
        => \A k \in 0..((360 * Deg) \div scan_step) :
               emitted_as_claimed(args.position, args.gmst,
                                  k * scan_step - 180 * Deg)

\* An equatorial body: one vertical segment on each line, and nothing at
\* the other 719 longitudes sampled.
VerticalSegmentWitness ==
    /\ pc = "planet_lines_returned"
    /\ args.position.declination = 0
    /\ Len(ret.asc_line) = 90
    /\ Len(ret.dsc_line) = 90
    /\ scan_step = Deg \div 2


\* C30: in the sampling loops the loop longitude strictly increases from
\* one pass to the next, for every longitude_step of the caller, so the
\* loops end and the call returns.
LoopLongitudeStrictlyIncreases ==
    [][pc' = pc /\ pc \in {"asc_loop", "dsc_loop"} => scan_lng' > scan_lng]_vars


\* no point is emitted at longitude l to either line: neither a vertical
\* segment nor a horizon latitude exists there
no_horizon_solution(position, gmst, l) ==
    /\ ~is_all_latitudes_horizon(position.right_ascension,
                                 position.declination, gmst, l)
    /\ calculate_horizon_latitude(position.right_ascension,
                                  position.declination, gmst, l) = NoLatitude

\* the longitudes a and b of two consecutive points are equal, one step
\* apart, or separated only by sampled longitudes without a solution
joined_as_claimed(position, gmst, a, b) ==
    \/ a = b
    \/ b = a + scan_step
    \/ /\ a < b
       /\ \A k \in 1..((b - a) \div scan_step - 1) :
              no_horizon_solution(position, gmst, a + k * scan_step)

polyline_joined_as_claimed(points) ==
    \A i \in 1..(Len(points) - 1) :
        joined_as_claimed(args.position, args.gmst, points[i][2],
                          points[i + 1][2])

\* C29: in the returned ASC and DSC polylines two consecutive points are at
\* the same sampled longitude, one sampling step apart, or separated only
\* by longitudes without a horizon solution; the two ends of a rising or
\* setting range that wraps across the +-180 meridian are never joined.
\* (Stated for the calls none of whose sampled longitudes has an hour angle
\* of exactly 0 or 180 degrees, where the side f64 reports is a rounding
\* artefact.)
NoJoinAcrossTheOtherSide ==
    /\ pc = "planet_lines_returned"
    /\ \A k \in 0..((360 * Deg) \div scan_step) :
           Sin(hour_angle_at(args.position.right_ascension, args.gmst,
                             k * scan_step - 180 * Deg)) # 0
    => /\ polyline_joined_as_claimed(ret.asc_line)
       /\ polyline_joined_as_claimed(ret.dsc_line)

----------------------------------------------------------------------------
(* Properties of generate_coarse_grid (GridSpec) *)

\* C23: the coarse grid, the grid of 5 degrees over the latitudes -60..70
\* and the longitudes -180..180, has 648 points.
CoarseGridHas648Points ==
    pc \in {"lat_loop", "lon_loop", "grid_returned"}
        /\ args.resolution_deg = 5 * Deg
    => /\ Len(grid_points) <= 648
       /\ pc = "grid_returned" => Len(ret) = 648

----------------------------------------------------------------------------
(* Properties of identify_hot_zones (HotZoneSpec) *)

\* the positions of the points with an influence
influenced(coarse_results) ==
    { i \in 1..Len(coarse_results) : coarse_results[i].influence_count >= 1 }

\* C24: every returned zone is a point with at least one influence; when
\* the n points with an influence have pairwise distinct scores, exactly
\* ceil(p * n) zones are returned, those of the highest scores; no zone is
\* returned only when no point has an influence.
HotZonesAreTopFraction ==
    pc = "hot_zones_returned" =>
        LET results == args.coarse_results
            with    == influenced(results)
            n       == Cardinality(with)
        IN  /\ \A k \in 1..Len(ret) : ret[k][1] \in with
            /\ (\A i, j \in with : i # j => results[i].score # results[j].score)
                   => Len(ret) = (n * args.threshold_percentile + 99) \div 100
            /\ ret = <<>> => with = {}

----------------------------------------------------------------------------
(* Properties of scout_cities_for_category_with_progress (ProgressSpec) *)

\* the place of a phase in the order of the phases
phase_rank(phase) ==
    CASE phase = "initializing" -> 1
      [] phase = "computing" -> 2
      [] phase = "aggregating" -> 3

\* C25: the percents of the successive calls of the callback never
\* decrease and lie in [5, 95]; the phases come in the order initializing,
\* computing, aggregating, the first call being initializing, every
\* computing call having a percent in [10, 80] and the last call of a
\* returned scout being aggregating; a callback that throws does not abort
\* the scout, which returns the ranking of all the cities.
ProgressIsMonotoneAndOrdered ==
    /\ \A k \in 1..Len(progress_calls) :
           /\ progress_calls[k].percent \in 5..95
           /\ progress_calls[k].phase = "computing"
                  => progress_calls[k].percent \in 10..80
           /\ k > 1 => /\ progress_calls[k - 1].percent
                              <= progress_calls[k].percent
                       /\ phase_rank(progress_calls[k - 1].phase)
                              <= phase_rank(progress_calls[k].phase)
    /\ progress_calls # <<>> => progress_calls[1].phase = "initializing"
    /\ pc # "failed"
    /\ pc = "progress_returned"
           => /\ progress_calls[Len(progress_calls)].phase = "aggregating"
              /\ Len(city_influence_sets) = Len(cities)
              /\ Len(seq_rankings) <= Len(cities)

\* A scout of 41 cities returned after reporting every second city, with a
\* callback that threw.
ProgressWitness ==
    /\ pc = "progress_returned"
    /\ callback_threw
    /\ Len(cities) = 41
    /\ Len(progress_calls) = 24
    /\ progress_calls[3] = [percent |-> 13, phase |-> "computing"]

----------------------------------------------------------------------------
(* Order of the influences (ScoreSpec) *)

\* the list with the influences at i and j exchanged
exchanged(infl, i, j) ==
    [k \in 1..Len(infl) |->
        IF k = i THEN infl[j] ELSE IF k = j THEN infl[i] ELSE infl[k]]

same_scores(a, b) ==
    /\ a.benefit_score = b.benefit_score
    /\ a.intensity_score = b.intensity_score
    /\ a.volatility_score = b.volatility_score
    /\ a.mixed_flag = b.mixed_flag

\* C26: the CityScore does not depend on the order of the influences: the
\* list with any two influences exchanged (hence every permutation of it)
\* gets the same benefit, intensity and volatility scores and mixed flag.
ScoreIsOrderIndependent ==
    pc = "scored" =>
        \A i, j \in 1..Len(influences) :
            same_scores(calculate_city_score(exchanged(influences, i, j),
                                             config),
                        score)

----------------------------------------------------------------------------
(* Properties of get_line_nature (NatureSpec) *)

\* C27: for every category no (planet, angle) pair is both beneficial and
\* challenging, so the nature reported for a listed pair is the only list
\* that holds it.
NoPairOnBothLists ==
    pc = "nature_returned" => ~(ret.beneficial /\ ret.challenging)

----------------------------------------------------------------------------
(* Determinism of group_and_rank_countries (CountrySpec) *)

\* C28: a second call with the same input returns the country groups in
\* the same order, whatever order the hash map is iterated in, also when
\* the top cities of two countries have equal benefit_score.
CountryOrderIsDeterministic ==
    pc = "grouped" =>
        \A order \in IterationOrders({ city_rankings[i].country :
                                           i \in 1..Len(city_rankings) }) :
            group_and_rank_countries(city_rankings, order) = ranked_countries

====
